---- MODULE Spec2Model ----
(***************************************************************************)
(* Model of the Reti UI contract-orchestration layer                       *)
(* (the contract API functions, AddValidatorForm.tsx lines 770-1790).      *)
(*                                                                         *)
(* Three specifications share the module's variables:                      *)
(*   Spec           one invocation after another of the state-mutating     *)
(*                  operations against the ledger gateway (algod),         *)
(*   SpecValidator  fetchValidator's five-way concurrent join,             *)
(*   SpecBatch      the batch loops of fetchValidators and                 *)
(*                  fetchStakerValidatorData.                              *)
(* JavaScript numbers that may be fractional (the fees) are exact          *)
(* rationals [n, d]; the gateway is an environment that answers each       *)
(* awaited call with success or failure.                                   *)
(***************************************************************************)
EXTENDS Integers, Sequences, FiniteSets, TLC

VARIABLES
    pc,          \* position of the current invocation of a mutating operation
    op,          \* the operation invoked
    args,        \* the operation's call arguments (validatorId, amountToUnstake, config, ...)
    amount,      \* the caller-given payment amount (poolMbr, poolInitMbr, stakeAmount)
    optIn,       \* initStakingPoolStorage's optInRewardToken
    pools,       \* claimTokens' pools list (pool app ids)
    prepIdx,     \* index of the awaited preparatory read
    validatorMbr,\* addValidator: the validator MBR read from getMbrAmounts
    payGroup,    \* the payment transaction object's group field (0 = undefined)
    budget,      \* appBudgetAdded reported by the phase-1 simulate (-1 = none)
    feesAmount,  \* the fee computed from the budget
    calls,       \* the gateway calls sent by this invocation, in order
    error,       \* the error the invocation ended with ("" = none)
    fv,          \* fetchValidator: the state of the five-way join
    bt,          \* batch loop: the state of fetchValidators / fetchStakerValidatorData
    fold,        \* fetchStakerValidatorData's reduce: its input list and its output
    rd,          \* read accessors: the running accessor, its gateway calls, the ledger
    gv,          \* addValidator's entry gating value: form values, encoding, call arguments
    cc,          \* two invocations of two-phase operations running side by side
    nfd,         \* the add-validator form's name-directory lookup
    chain,       \* the transactions the current invocation has committed on the ledger
    result,      \* the returns of the executed group and the value the invocation returns
    ms           \* fetchMaxAvailableToStake: its reads and its result

aux == <<gv, cc, nfd, chain, result, ms>>

vars == <<pc, op, args, amount, optIn, pools, prepIdx, validatorMbr, payGroup,
          budget, feesAmount, calls, error, fv, bt, fold, rd, aux>>

txVars == <<pc, op, args, amount, optIn, pools, prepIdx, validatorMbr, payGroup,
            budget, feesAmount, calls, error>>

-----------------------------------------------------------------------------
(* Bounds *)

\* Budgets reported by a simulate range over 0..MaxBudget (two conversion
\* units of 700 and a little more).
MaxBudget == 1405
\* Call arguments and payment amounts are drawn from 1..MaxArg, 1..MaxAmount.
MaxArg == 2
MaxAmount == 2
\* claimTokens is invoked on lists of at most MaxPools pools.
MaxPools == 2

Budgets == 0..MaxBudget
Args == 1..MaxArg
Amounts == 1..MaxAmount
PoolIds == 1..MaxPools

RECURSIVE SeqsUpTo(_, _)
SeqsUpTo(S, n) ==
    IF n = 0 THEN {<<>>}
    ELSE LET shorter == SeqsUpTo(S, n - 1)
         IN  shorter \cup {Append(s, x) : s \in {t \in shorter : Len(t) = n - 1}, x \in S}

PoolLists == SeqsUpTo(PoolIds, MaxPools)

-----------------------------------------------------------------------------
(* Amounts and fees *)

\* A JavaScript number as an exact rational n/d, d > 0.
Rat(n, d) == [n |-> n, d |-> d]
RatGeq(x, y) == x.n * y.d >= y.n * x.d
RatEq(x, y) == x.n * y.d = y.n * x.d
IsWhole(x) == x.n % x.d = 0

\* AlgoAmount.MicroAlgos(x): the amount is kept as given.
MicroAlgos(x) == [set |-> TRUE, n |-> x.n, d |-> x.d]
\* No fee in sendParams: the transaction keeps the suggested fee.
SuggestedFee == [set |-> FALSE, n |-> 0, d |-> 1]

\* Mutant: the conversion rounds down.
FeeRoundedDown(b) == Rat(1000 * (b \div 700), 1)

\* Mutant: the conversion counts one unit more than the whole units consumed.
FeeWholeUnitsPlusOne(b) == Rat(1000 * (b \div 700 + 1), 1)

\* Mutant: the remainder of the division is taken for its quotient.
FeeOfRemainder(b) == Rat(1000 * ((b + 699) % 700), 1)

\* 1000 * Math.floor((appBudgetAdded + 699) / 700)
FeeRoundedUp(b) == Rat(1000 * ((b + 699) \div 700), 1)

\* surcharge + 1000 * (appBudgetAdded / 700): a division of numbers, not rounded
FeeUnrounded(surcharge, b) == Rat(surcharge * 700 + 1000 * b, 700)

addValidatorFee(b) == FeeRoundedUp(b)
\* Mutant: the surcharge is left out.
addStakeFeeNoSurcharge(b) == FeeUnrounded(0, b)

addStakeFee(b) == FeeUnrounded(2000, b)
removeStakeFee(b) == FeeRoundedUp(b)
epochBalanceUpdateFee(b) == FeeUnrounded(3000, b)
claimTokensFee(b) == FeeRoundedUp(b)

TwoPhaseOps == {"addValidator", "addStake", "removeStake", "epochBalanceUpdate", "claimTokens"}
DirectOps == {"addStakingPool", "initStakingPoolStorage"}
Ops == TwoPhaseOps \cup DirectOps

ComputeFee(o, b) ==
    CASE o = "addValidator" -> addValidatorFee(b)
      [] o = "addStake" -> addStakeFee(b)
      [] o = "removeStake" -> removeStakeFee(b)
      [] o = "epochBalanceUpdate" -> epochBalanceUpdateFee(b)
      [] o = "claimTokens" -> claimTokensFee(b)

-----------------------------------------------------------------------------
(* Transactions and groups *)

Registry == 0      \* the registry application; pool applications are 1..MaxPools
NoFee == Rat(0, 1)

\* An application (method) call of a group.
Appl(method, app, signer, fee, note, a) ==
    [type |-> "appl", method |-> method, app |-> app, signer |-> signer,
     fee |-> fee, note |-> note, args |-> a, amount |-> 0]

\* A payment transaction passed as a method argument; the composer places it
\* immediately before the call that takes it.
Pay(signer, amt) ==
    [type |-> "pay", method |-> "", app |-> Registry, signer |-> signer,
     fee |-> SuggestedFee, note |-> "", args |-> 0, amount |-> amt]

Gas(app, signer, fee, note) == Appl("gas", app, signer, fee, note, 0)

addValidatorSimulate(mbr, a) ==
    << Pay("empty", mbr),
       Appl("addValidator", Registry, "empty", MicroAlgos(Rat(240000, 1)), "", a) >>

addValidatorExecute(mbr, a, fee) ==
    << Pay("wallet", mbr),
       Appl("addValidator", Registry, "wallet", MicroAlgos(fee), "", a) >>

addStakingPoolExecute(poolMbr, a) ==
    << Gas(Registry, "wallet", SuggestedFee, "1"),
       Gas(Registry, "wallet", SuggestedFee, "2"),
       Pay("wallet", poolMbr),
       Appl("addPool", Registry, "wallet", MicroAlgos(Rat(2000, 1)), "", a) >>

\* mbrAmount = optInRewardToken ? poolInitMbr + Algos(0.1).microAlgos : poolInitMbr
initStorageMbrAmount(poolInitMbr, optInRewardToken) ==
    IF optInRewardToken THEN poolInitMbr + 100000 ELSE poolInitMbr

initStakingPoolStorageExecute(poolAppId, poolInitMbr, optInRewardToken) ==
    << Gas(poolAppId, "wallet", SuggestedFee, "1"),
       Gas(poolAppId, "wallet", SuggestedFee, "2"),
       Pay("wallet", initStorageMbrAmount(poolInitMbr, optInRewardToken)),
       Appl("initStorage", poolAppId, "wallet", MicroAlgos(Rat(3000, 1)), "", 0) >>

addStakeSimulate(stakeAmount, a) ==
    << Gas(Registry, "empty", SuggestedFee, ""),
       Pay("empty", stakeAmount),
       Appl("addStake", Registry, "empty", MicroAlgos(Rat(240000, 1)), "", a) >>

addStakeExecute(stakeAmount, a, fee) ==
    << Gas(Registry, "wallet", SuggestedFee, ""),
       Pay("wallet", stakeAmount),
       Appl("addStake", Registry, "wallet", MicroAlgos(fee), "", a) >>

removeStakeSimulate(poolAppId, a) ==
    << Gas(poolAppId, "empty", MicroAlgos(NoFee), "1"),
       Gas(poolAppId, "empty", MicroAlgos(NoFee), "2"),
       Appl("removeStake", poolAppId, "empty", MicroAlgos(Rat(240000, 1)), "", a) >>

removeStakeExecute(poolAppId, a, fee) ==
    << Gas(poolAppId, "wallet", MicroAlgos(NoFee), "1"),
       Gas(poolAppId, "wallet", MicroAlgos(NoFee), "2"),
       Appl("removeStake", poolAppId, "wallet", MicroAlgos(fee), "", a) >>

epochBalanceUpdateSimulate(poolAppId) ==
    << Gas(poolAppId, "empty", SuggestedFee, "1"),
       Gas(poolAppId, "empty", SuggestedFee, "2"),
       Appl("epochBalanceUpdate", poolAppId, "empty", MicroAlgos(Rat(240000, 1)), "", 0) >>

epochBalanceUpdateExecute(poolAppId, fee) ==
    << Gas(poolAppId, "wallet", MicroAlgos(NoFee), "1"),
       Gas(poolAppId, "wallet", MicroAlgos(NoFee), "2"),
       Appl("epochBalanceUpdate", poolAppId, "wallet", MicroAlgos(fee), "", 0) >>

\* for (const pool of pools) { gas; gas; claimTokens } on one composer
RECURSIVE claimTokensSimulate(_)
claimTokensSimulate(ps) ==
    IF ps = <<>> THEN <<>>
    ELSE << Gas(Head(ps), "empty", MicroAlgos(NoFee), "1"),
            Gas(Head(ps), "empty", MicroAlgos(NoFee), "2"),
            Appl("claimTokens", Head(ps), "empty", MicroAlgos(Rat(240000, 1)), "", 0) >>
         \o claimTokensSimulate(Tail(ps))

\* Mutant: the calls of the first pool of the list only.
claimTokensExecuteFirstPool(ps, fee) ==
    IF ps = <<>> THEN <<>>
    ELSE << [type |-> "appl", method |-> "gas", app |-> Head(ps), signer |-> "wallet",
             fee |-> [set |-> TRUE, n |-> 0, d |-> 1], note |-> "1", args |-> 0, amount |-> 0],
            [type |-> "appl", method |-> "gas", app |-> Head(ps), signer |-> "wallet",
             fee |-> [set |-> TRUE, n |-> 0, d |-> 1], note |-> "2", args |-> 0, amount |-> 0],
            [type |-> "appl", method |-> "claimTokens", app |-> Head(ps), signer |-> "wallet",
             fee |-> [set |-> TRUE, n |-> fee.n, d |-> fee.d], note |-> "", args |-> 0,
             amount |-> 0] >>

RECURSIVE claimTokensExecute(_, _)
claimTokensExecute(ps, fee) ==
    IF ps = <<>> THEN <<>>
    ELSE << Gas(Head(ps), "wallet", MicroAlgos(NoFee), "1"),
            Gas(Head(ps), "wallet", MicroAlgos(NoFee), "2"),
            Appl("claimTokens", Head(ps), "wallet", MicroAlgos(fee), "", 0) >>
         \o claimTokensExecute(Tail(ps), fee)

-----------------------------------------------------------------------------
(* The mutating operations against the gateway *)

\* The reads an operation awaits before it composes its first group.
PrepSteps(o) ==
    CASE o = "addValidator" -> <<"getAppReference", "getMbrAmounts", "getTransactionParams">>
      [] o = "addStakingPool" -> <<"getAppReference", "getTransactionParams">>
      [] o = "initStakingPoolStorage" -> <<"getTransactionParams">>
      [] o = "addStake" -> <<"getAppReference", "getTransactionParams">>
      [] OTHER -> <<>>

HasPayment(o) == o \in {"addValidator", "addStakingPool", "initStakingPoolStorage", "addStake"}

\* The operations whose logical call takes arguments (config; validatorId and
\* nodeNum or valueToVerify; amountToUnstake), and those given a payment amount
\* by the caller (poolMbr, poolInitMbr, stakeAmount).
TakesArgs(o) == o \in {"addValidator", "addStakingPool", "addStake", "removeStake"}
TakesAmount(o) == o \in {"addStakingPool", "initStakingPoolStorage", "addStake"}

\* The operations addressed to one pool contract take its app id.
PoolScoped(o) == o \in {"initStakingPoolStorage", "removeStake", "epochBalanceUpdate"}

\* The group an operation composes for its phase-1 simulate.
SimGroup(o, a, amt, ps, mbr) ==
    CASE o = "addValidator" -> addValidatorSimulate(mbr, a)
      [] o = "addStake" -> addStakeSimulate(amt, a)
      [] o = "removeStake" -> removeStakeSimulate(Head(ps), a)
      [] o = "epochBalanceUpdate" -> epochBalanceUpdateSimulate(Head(ps))
      [] o = "claimTokens" -> claimTokensSimulate(ps)

\* The group an operation composes for its execute.
ExecGroup(o, a, amt, oi, ps, mbr, fee) ==
    CASE o = "addValidator" -> addValidatorExecute(mbr, a, fee)
      [] o = "addStakingPool" -> addStakingPoolExecute(amt, a)
      [] o = "initStakingPoolStorage" -> initStakingPoolStorageExecute(Head(ps), amt, oi)
      [] o = "addStake" -> addStakeExecute(amt, a, fee)
      [] o = "removeStake" -> removeStakeExecute(Head(ps), a, fee)
      [] o = "epochBalanceUpdate" -> epochBalanceUpdateExecute(Head(ps), fee)
      [] o = "claimTokens" -> claimTokensExecute(ps, fee)

\* A call to the gateway: payLink is the payment object's group field at the
\* time the group was composed.
Call(kind, group, payLink) ==
    [kind |-> kind, group |-> group, status |-> "pending", payLink |-> payLink]

PrepCall(step) ==
    IF step = "getMbrAmounts"
    THEN Call("simulate", << Appl("getMbrAmounts", Registry, "empty", SuggestedFee, "", 0) >>, 0)
    ELSE Call(step, <<>>, 0)

Settle(cs, status) == [cs EXCEPT ![Len(cs)].status = status]

\* Mutant: the payment keeps the group linkage of the simulate.
KeepPaymentGroup(g) == g

\* payValidatorMbr.group = undefined / stakeTransferPayment.group = undefined
ClearPaymentGroup(g) == 0

\* The composer refuses a transaction that already belongs to a group and an
\* empty group; otherwise building the group links its transactions to it.
CanCompose(group, payLink) == group # <<>> /\ payLink = 0

\* Mutant: the first group of every operation is sent for execution at once.
FirstPhaseExecuteOnly(o, a, amt, oi, ps, mbr, cs) ==
    LET group == ExecGroup(o, a, amt, oi, ps, mbr, Rat(240000, 1))
    IN  IF CanCompose(group, 0)
        THEN /\ pc' = "exec"
             /\ calls' = Append(cs, Call("execute", group, 0))
             /\ payGroup' = (IF HasPayment(o) THEN Len(cs) + 1 ELSE 0)
             /\ error' = ""
        ELSE /\ pc' = "failed"
             /\ calls' = cs
             /\ payGroup' = 0
             /\ error' = "compose"

\* The first group of an operation, composed and sent once its reads are in:
\* the phase-1 simulate of a two-phase operation, the execute of a direct one.
FirstPhase(o, a, amt, oi, ps, mbr, cs) ==
    LET kind == IF o \in TwoPhaseOps THEN "simulate" ELSE "execute"
        group == IF o \in TwoPhaseOps THEN SimGroup(o, a, amt, ps, mbr)
                 ELSE ExecGroup(o, a, amt, oi, ps, mbr, NoFee)
    IN  IF CanCompose(group, 0)
        THEN /\ pc' = (IF o \in TwoPhaseOps THEN "sim" ELSE "exec")
             /\ calls' = Append(cs, Call(kind, group, 0))
             /\ payGroup' = (IF HasPayment(o) THEN Len(cs) + 1 ELSE 0)
             /\ error' = ""
        ELSE /\ pc' = "failed"
             /\ calls' = cs
             /\ payGroup' = 0
             /\ error' = "compose"

Invoke(o, a, amt, oi, ps) ==
    /\ pc = "idle"
    /\ op' = o /\ args' = a /\ amount' = amt /\ optIn' = oi /\ pools' = ps
    /\ validatorMbr' = 0
    /\ budget' = -1
    /\ feesAmount' = NoFee
    /\ IF PrepSteps(o) # <<>>
       THEN /\ pc' = "prep"
            /\ prepIdx' = 1
            /\ calls' = << PrepCall(PrepSteps(o)[1]) >>
            /\ payGroup' = 0
            /\ error' = ""
       ELSE /\ prepIdx' = 0
            /\ FirstPhase(o, a, amt, oi, ps, 0, <<>>)
    /\ UNCHANGED <<fv, bt, fold, rd, aux>>

\* The awaited read resolves; m is the validator MBR when it is getMbrAmounts.
PrepResolve(m) ==
    /\ pc = "prep"
    /\ LET steps == PrepSteps(op)
           step == steps[prepIdx]
           mbr == IF step = "getMbrAmounts" THEN m ELSE validatorMbr
           cs == Settle(calls, "ok")
       IN  /\ validatorMbr' = mbr
           /\ IF prepIdx < Len(steps)
              THEN /\ prepIdx' = prepIdx + 1
                   /\ calls' = Append(cs, PrepCall(steps[prepIdx + 1]))
                   /\ UNCHANGED <<pc, payGroup, error>>
              ELSE /\ prepIdx' = 0
                   /\ FirstPhase(op, args, amount, optIn, pools, mbr, cs)
    /\ UNCHANGED <<op, args, amount, optIn, pools, budget, feesAmount, fv, bt, fold, rd, aux>>

PrepReject ==
    /\ pc = "prep"
    /\ pc' = "failed"
    /\ error' = PrepSteps(op)[prepIdx]
    /\ calls' = Settle(calls, "failed")
    /\ UNCHANGED <<op, args, amount, optIn, pools, prepIdx, validatorMbr, payGroup,
                   budget, feesAmount, fv, bt, fold, rd, aux>>

\* The phase-1 simulate returns with appBudgetAdded = b: the payment's group
\* linkage is dropped, the fee computed, the phase-2 group composed and sent.
SimulateResolve(b) ==
    /\ pc = "sim"
    /\ LET cs == Settle(calls, "ok")
           link == IF HasPayment(op) THEN ClearPaymentGroup(payGroup) ELSE payGroup
           fee == ComputeFee(op, b)
           group == ExecGroup(op, args, amount, optIn, pools, validatorMbr, fee)
       IN  /\ budget' = b
           /\ feesAmount' = fee
           /\ IF CanCompose(group, link)
              THEN /\ pc' = "exec"
                   /\ calls' = Append(cs, Call("execute", group, link))
                   /\ payGroup' = (IF HasPayment(op) THEN Len(cs) + 1 ELSE 0)
                   /\ error' = ""
              ELSE /\ pc' = "failed"
                   /\ calls' = cs
                   /\ payGroup' = link
                   /\ error' = "compose"
    /\ UNCHANGED <<op, args, amount, optIn, pools, prepIdx, validatorMbr, fv, bt, fold, rd, aux>>

\* Mutant: a rejected simulate is swallowed and the group executed with the
\* placeholder fee.
SimulateRejectSwallowed ==
    /\ pc = "sim"
    /\ pc' = "exec"
    /\ error' = ""
    /\ calls' = Append(Settle(calls, "failed"),
                       Call("execute",
                            ExecGroup(op, args, amount, optIn, pools, validatorMbr,
                                      Rat(240000, 1)), 0))
    /\ UNCHANGED <<op, args, amount, optIn, pools, prepIdx, validatorMbr, payGroup,
                   budget, feesAmount, fv, bt, fold, rd, aux>>

\* Mutant: a rejected phase-1 simulate is sent again.
SimulateRejectRetried ==
    /\ pc = "sim"
    /\ pc' = "sim"
    /\ error' = ""
    /\ calls' = Append(Settle(calls, "failed"),
                       [calls[Len(calls)] EXCEPT !.status = "pending"])
    /\ UNCHANGED <<op, args, amount, optIn, pools, prepIdx, validatorMbr, payGroup,
                   budget, feesAmount, fv, bt, fold, rd, aux>>

\* The phase-1 simulate is rejected: the await throws out of the operation.
SimulateReject ==
    /\ pc = "sim"
    /\ pc' = "failed"
    /\ error' = "simulate"
    /\ calls' = Settle(calls, "failed")
    /\ UNCHANGED <<op, args, amount, optIn, pools, prepIdx, validatorMbr, payGroup,
                   budget, feesAmount, fv, bt, fold, rd, aux>>

\* Mutant: the transactions ahead of the one the ledger refused stay committed.
CommitUpToRefusal(committed, group, accepted) ==
    IF accepted THEN committed \o group
    ELSE committed \o SubSeq(group, 1, Len(group) - 1)

\* .execute() / algokit.sendAtomicTransactionComposer({ atc }): the calls are
\* sent as one atomic group, which the ledger commits whole or not at all.
CommitGroup(committed, group, accepted) ==
    IF accepted THEN committed \o group ELSE committed

\* The method calls of a group: a payment is an argument of the call that
\* follows it and has no return value of its own.
RECURSIVE MethodCalls(_)
MethodCalls(group) ==
    IF group = <<>> THEN <<>>
    ELSE (IF Head(group).type = "appl" THEN << Head(group) >> ELSE <<>>)
         \o MethodCalls(Tail(group))

\* A method without a return value (gas, initStorage, removeStake, ...).
VoidReturn == <<>>

\* result.returns of an executed group: one entry per method call, in the
\* order of the calls; the contract answers addValidator with the new
\* validator id k, addPool and addStake with the key of pool k of the
\* validator they were called for.
ExecuteReturns(group, k) ==
    LET mc == MethodCalls(group)
    IN  [j \in 1..Len(mc) |->
            CASE mc[j].method = "addValidator" -> << k >>
              [] mc[j].method \in {"addPool", "addStake"} -> << mc[j].args, k, 100 + k >>
              [] OTHER -> VoidReturn]

\* Mutant: the first entry of returns is read by every operation.
returnsIndexFirst(o) == 0

\* The index at which an operation reads returns (counted from 0):
\* result.returns![0], addPoolResponse.returns![2], results.returns![1].
returnsIndex(o) ==
    CASE o = "addValidator" -> 0
      [] o = "addStakingPool" -> 2
      [] o = "addStake" -> 1

\* No value: what an operation without a return statement gives, and the
\* numbers (NaN, here 0) made of an entry that holds no tuple.
NoValue == [validatorId |-> 0, poolId |-> 0, poolAppId |-> 0]

\* No group executed, no value returned.
NoReturn == [returns |-> <<>>, value |-> NoValue]

\* The value an operation returns from the returns of its executed group:
\* Number(returns[0]) for addValidator, the pool key { poolId, poolAppId,
\* validatorId } destructured from [valId, poolId, poolAppId] for
\* addStakingPool and addStake, nothing for the others.
ReturnValue(o, returns) ==
    IF o \in {"addValidator", "addStakingPool", "addStake"}
    THEN LET entry == returns[returnsIndex(o) + 1]
         IN  IF o = "addValidator"
             THEN IF Len(entry) = 1 THEN [NoValue EXCEPT !.validatorId = entry[1]]
                  ELSE NoValue
             ELSE IF Len(entry) = 3
                  THEN [validatorId |-> entry[1], poolId |-> entry[2], poolAppId |-> entry[3]]
                  ELSE NoValue
    ELSE NoValue

\* The execute is accepted; the contract's answer holds the id k.
ExecuteResolve(k) ==
    /\ pc = "exec"
    /\ pc' = "done"
    /\ calls' = Settle(calls, "ok")
    /\ chain' = CommitGroup(chain, calls[Len(calls)].group, TRUE)
    /\ k = 1 \/ op \in {"addValidator", "addStakingPool", "addStake"}
    /\ LET returns == ExecuteReturns(calls[Len(calls)].group, k)
       IN  result' = [returns |-> returns, value |-> ReturnValue(op, returns)]
    /\ UNCHANGED <<op, args, amount, optIn, pools, prepIdx, validatorMbr, payGroup,
                   budget, feesAmount, error, fv, bt, fold, rd, gv, cc, nfd, ms>>

ExecuteReject ==
    /\ pc = "exec"
    /\ pc' = "failed"
    /\ error' = "execute"
    /\ calls' = Settle(calls, "failed")
    /\ chain' = CommitGroup(chain, calls[Len(calls)].group, FALSE)
    /\ UNCHANGED <<op, args, amount, optIn, pools, prepIdx, validatorMbr, payGroup,
                   budget, feesAmount, fv, bt, fold, rd, gv, cc, nfd, result, ms>>

\* The promise settles: the caller has the result or the error, and the
\* invocation's locals are gone (the ledger record starts over with the next
\* invocation).
Return ==
    /\ pc \in {"done", "failed"}
    /\ pc' = "idle" /\ op' = "none" /\ args' = 0 /\ amount' = 0 /\ optIn' = FALSE
    /\ pools' = <<>> /\ prepIdx' = 0 /\ validatorMbr' = 0 /\ payGroup' = 0
    /\ budget' = -1 /\ feesAmount' = NoFee /\ calls' = <<>> /\ error' = ""
    /\ chain' = <<>>
    /\ result' = NoReturn
    /\ UNCHANGED <<fv, bt, fold, rd, gv, cc, nfd, ms>>

\* The inputs an operation is invoked with.
InvokeAny ==
    /\ pc = "idle"
    /\ \E o \in Ops, a \in Args \cup {0}, amt \in Amounts \cup {0}, oi \in BOOLEAN,
          ps \in PoolLists :
           /\ a = 0 <=> ~TakesArgs(o)
           /\ amt = 0 <=> ~TakesAmount(o)
           /\ oi => o = "initStakingPoolStorage"
           /\ IF PoolScoped(o) THEN Len(ps) = 1
              ELSE IF o = "claimTokens" THEN TRUE ELSE ps = <<>>
           /\ Invoke(o, a, amt, oi, ps)

FvIdle == [pc |-> "idle", id |-> 0, reads |-> <<>>, validator |-> [none |-> TRUE], error |-> ""]
BtIdle == [pc |-> "idle", fn |-> "none", n |-> 0, inputs |-> <<>>, failing |-> 0,
           i |-> 0, status |-> <<>>, started |-> <<>>, batches |-> <<>>,
           batchResults |-> <<>>, outOfOrder |-> FALSE,
           all |-> <<>>, result |-> <<>>, error |-> ""]

InitTx ==
    /\ pc = "idle" /\ op = "none" /\ args = 0 /\ amount = 0 /\ optIn = FALSE
    /\ pools = <<>> /\ prepIdx = 0 /\ validatorMbr = 0 /\ payGroup = 0
    /\ budget = -1 /\ feesAmount = NoFee /\ calls = <<>> /\ error = ""

\* No list of pool records handed to the reduce.
FoldIdle == [pc |-> "idle", allPools |-> <<>>, result |-> <<>>]

\* No client handed to an accessor (its optional parameter left out).
NoClient == [app |-> "none", sender |-> "none", signer |-> "none"]

\* No read accessor running; nothing committed to the ledger.
RdIdle == [pc |-> "idle", accessor |-> "none", client |-> NoClient, calls |-> <<>>,
           sent |-> 0, gatewayError |-> "", error |-> "", ledger |-> 0]

\* addValidator not called: no gating value encoded.
GvIdle == [pc |-> "idle", type |-> "", value |-> <<>>, entryGatingType |-> 0,
           entryGatingValue |-> <<>>, simulated |-> <<>>, executed |-> <<>>]

\* Two invocations may be in flight at once (the layer's functions are async
\* and the page calls them from independent handlers).
Slots == {1, 2}

\* An invocation not started: no operation, no gateway call sent.  mbrRead
\* and reported record what the gateway answered to the invocation's own
\* getMbrAmounts read and phase-1 simulate (0 and -1 = no answer yet).
SlotIdle == [pc |-> "idle", op |-> "none", args |-> 0, amount |-> 0, pools |-> <<>>,
             prepIdx |-> 0, calls |-> <<>>, mbrRead |-> 0, reported |-> -1,
             error |-> ""]

\* The consts of one call of an operation, before they are assigned.
FrameEmpty == [validatorMbr |-> 0, feesAmount |-> NoFee]

\* No invocation has returned yet.
NoEarlier == [fee |-> <<>>, mbr |-> 0]

\* No invocation running in either slot.  earlier records the fee computed
\* and the validator MBR read by the invocations that have returned (the
\* latest of each).
CcIdle == [slot |-> [i \in Slots |-> SlotIdle],
           frame |-> [i \in Slots |-> FrameEmpty],
           earlier |-> NoEarlier]

\* fetchMaxAvailableToStake not called: no read sent, no config and no pools
\* in hand, no result (-1).
MsIdle == [pc |-> "idle", reads |-> <<>>, maxAlgoPerPool |-> 0, poolsInfo |-> <<>>,
           result |-> -1, error |-> ""]

\* The form as mounted: nfdAppId 0, no lookup running, no field error.
\* event, status and appIdBefore record the last step taken, the HTTP status
\* it was answered with (0: none) and the nfdAppId it found.
\* isSigning is false and no submission has been made: submit is the position
\* of onSubmit, submits and started count the calls of onSubmit and of
\* addValidator, submitted holds what addValidator was called with.
NfdIdle == [field |-> 0, nfdAppId |-> 0, isFetchingAppId |-> FALSE, error |-> "",
            debounce |-> 0, lookups |-> {}, event |-> "", status |-> 0,
            appIdBefore |-> 0,
            mounted |-> TRUE, isSigning |-> FALSE, submit |-> "none",
            submits |-> 0, started |-> 0,
            submitted |-> [nfdForInfo |-> 0, nfdAppId |-> 0]]

InitAux ==
    /\ gv = GvIdle /\ cc = CcIdle /\ nfd = NfdIdle /\ chain = <<>>
    /\ result = NoReturn /\ ms = MsIdle

Init ==
    /\ InitTx /\ fv = FvIdle /\ bt = BtIdle /\ fold = FoldIdle /\ rd = RdIdle
    /\ InitAux

Next ==
    \/ InvokeAny
    \/ \E m \in Amounts : PrepResolve(m)
    \/ PrepReject
    \/ \E b \in Budgets : SimulateResolve(b)
    \/ SimulateReject
    \/ \E k \in PoolIds : ExecuteResolve(k)
    \/ ExecuteReject
    \/ Return

Spec == Init /\ [][Next]_vars

-----------------------------------------------------------------------------
(* fetchValidator: five concurrent reads joined by Promise.all *)

\* Validator ids asked for range over 1..MaxValidatorId.
MaxValidatorId == 2
\* A pool directory read returns at most MaxPoolsInfo pools.
MaxPoolsInfo == 1

ReadNames == <<"config", "state", "pools", "poolTokenPayoutRatios", "nodePoolAssignments">>
ReadIdx == 1..Len(ReadNames)

\* response.returns?.[0]: absent (undefined), or the decoded return value, a
\* tuple or an array given here by its items.
Undefined == [defined |-> FALSE, items |-> <<>>]
Value(items) == [defined |-> TRUE, items |-> items]

\* What a read may return for validator id: config, state, payout ratios and
\* node assignment are non-empty tuples, the pool directory an array of any
\* length, each possibly absent.
Returns(r, id) ==
    IF ReadNames[r] = "pools"
    THEN {Undefined} \cup {Value([k \in 1..n |-> k]) : n \in 0..MaxPoolsInfo}
    ELSE {Undefined, Value(<<id>>)}

\* Mutant: an empty array counts as missing.
FalsyOrEmpty(v) == ~v.defined \/ v.items = <<>>

\* !raw in JavaScript: undefined is falsy, every array or tuple is truthy.
Falsy(v) == ~v.defined

\* Mutant: the node assignment is not looked at.
AnyMissingButAssignment(raw) ==
    Falsy(raw[1]) \/ Falsy(raw[2]) \/ Falsy(raw[3]) \/ Falsy(raw[4])

\* !rawConfig || !rawState || !rawPoolsInfo || !rawPoolTokenPayoutRatios ||
\* !rawNodePoolAssignment
AnyMissing(raw) ==
    Falsy(raw[1]) \/ Falsy(raw[2]) \/ Falsy(raw[3]) \/ Falsy(raw[4]) \/ Falsy(raw[5])

\* The Validator object assembled from the five raw values.
transformValidatorData(rawConfig, rawState, rawPoolsInfo, rawRatios, rawAssignment) ==
    [config |-> rawConfig, state |-> rawState, pools |-> rawPoolsInfo,
     tokenPayoutRatio |-> rawRatios, nodePoolAssignment |-> rawAssignment]

NoValidator == [none |-> TRUE]
Pending == [status |-> "pending", value |-> Undefined]
Resolved(v) == [status |-> "resolved", value |-> v]
Rejected == [status |-> "rejected", value |-> Undefined]

Unstarted == [status |-> "unstarted", value |-> Undefined]

\* Mutant: only the first read is sent before the await.
StartFirstRead(idx) == [r \in idx |-> IF r = 1 THEN Pending ELSE Unstarted]

\* The array handed to Promise.all: each element is a call expression, so
\* every read is sent when the array is built.
StartReads(idx) == [r \in idx |-> Pending]

\* fetchValidator(validatorId): the five simulate reads are all sent before
\* the first await.
fetchValidator(id) ==
    /\ fv.pc = "idle"
    /\ fv' = [pc |-> "reading", id |-> id, reads |-> StartReads(ReadIdx),
              validator |-> NoValidator, error |-> ""]
    /\ UNCHANGED <<txVars, bt, fold, rd, aux>>

\* What runs after Promise.all has resolved.
fetchValidatorJoined(reads) ==
    LET raw == [r \in ReadIdx |-> reads[r].value]
    IN  IF AnyMissing(raw)
        THEN [fv EXCEPT !.pc = "threw", !.reads = reads,
                        !.error = "ValidatorNotFoundError"]
        ELSE [fv EXCEPT !.pc = "returned", !.reads = reads,
                        !.validator = transformValidatorData(raw[1].items, raw[2].items,
                                                            raw[3].items, raw[4].items,
                                                            raw[5].items)]

\* Read r returns v; the last of the five to resolve lets the join go on.
ReadResolve(r, v) ==
    /\ fv.pc \in {"reading", "threw"}
    /\ fv.reads[r].status = "pending"
    /\ LET reads == [fv.reads EXCEPT ![r] = Resolved(v)]
       IN  fv' = IF fv.pc = "reading" /\ \A q \in ReadIdx : reads[q].status = "resolved"
                 THEN fetchValidatorJoined(reads)
                 ELSE [fv EXCEPT !.reads = reads]
    /\ UNCHANGED <<txVars, bt, fold, rd, aux>>

\* Read r fails; Promise.all rejects with the first failure, which is logged
\* and thrown on.
ReadReject(r) ==
    /\ fv.pc \in {"reading", "threw"}
    /\ fv.reads[r].status = "pending"
    /\ fv' = IF fv.pc = "reading"
             THEN [fv EXCEPT !.pc = "threw", !.reads[r] = Rejected, !.error = ReadNames[r]]
             ELSE [fv EXCEPT !.reads[r] = Rejected]
    /\ UNCHANGED <<txVars, bt, fold, rd, aux>>

\* The caller has the validator or the error.
fetchValidatorSettled ==
    /\ fv.pc \in {"returned", "threw"}
    /\ fv' = FvIdle
    /\ UNCHANGED <<txVars, bt, fold, rd, aux>>

NextValidator ==
    \/ \E id \in 1..MaxValidatorId : fetchValidator(id)
    \/ \E r \in ReadIdx : \E v \in Returns(r, fv.id) : ReadResolve(r, v)
    \/ \E r \in ReadIdx : ReadReject(r)
    \/ fetchValidatorSettled

SpecValidator == Init /\ [][NextValidator]_vars

-----------------------------------------------------------------------------
(* The batch loops of fetchValidators and fetchStakerValidatorData *)

\* The listing read returns at most MaxInputs inputs (validators, pool keys).
MaxInputs == 23

batchSize == 10

BatchFns == {"fetchValidators", "fetchStakerValidatorData"}

\* Mutant: the first argument, whichever is smaller.
MinKeepFirst(a, b) == a

Min(a, b) == IF a <= b THEN a ELSE b

\* The pool keys the registry lists for the staker, n of them: three pools per
\* validator, discovered pool by pool.
StakedPools(n) ==
    [k \in 1..n |-> [validatorId |-> 1 + ((k - 1) % 3),
                     poolId |-> 1 + ((k - 1) \div 3),
                     poolAppId |-> 100 + k]]

\* The inputs of the loop: validator ids 1..numValidators (validatorId =
\* i + index + 1), or the staker's pool keys.
\* Mutant: validator ids counted from 0.
BatchInputsZeroBased(fn, n) ==
    IF fn = "fetchValidators" THEN [k \in 1..n |-> k - 1] ELSE StakedPools(n)

BatchInputs(fn, n) ==
    IF fn = "fetchValidators" THEN [k \in 1..n |-> k] ELSE StakedPools(n)

\* fetchStakerPoolData(poolKey, staker): the staker's StakedInfo in that pool
\* as the ledger holds it, with the pool key.
fetchStakerPoolData(poolKey) ==
    [poolKey |-> poolKey,
     balance |-> 10 * poolKey.poolAppId,
     totalRewarded |-> poolKey.poolId,
     rewardTokenBalance |-> poolKey.validatorId,
     entryTime |-> 1000 - poolKey.poolAppId]

\* What one fetch of the batch resolves to.
FetchResult(fn, input) ==
    IF fn = "fetchValidators" THEN [id |-> input] ELSE fetchStakerPoolData(input)

\* Mutant: the pool replaces the aggregate's pools list.
PushPoolReplace(list, pool) == <<pool>>

\* Mutant: the pool is put at the front of the aggregate's pools list.
PushPoolFront(list, pool) == <<pool>> \o list

\* existingData.pools.push(pool)
PushPool(list, pool) == Append(list, pool)

\* Mutant: a new aggregate is put at the front of the list.
PushAggregateFront(acc, data) == <<data>> \o acc

\* acc.push({...})
PushAggregate(acc, data) == Append(acc, data)

\* Mutant: an existing aggregate's balance is replaced by the pool's balance.
GroupByValidatorOverwrite(acc, pool) ==
    LET validatorId == pool.poolKey.validatorId
        found == {k \in 1..Len(acc) : acc[k].validatorId = validatorId}
    IN  IF found # {}
        THEN LET k == CHOOSE x \in found : \A y \in found : x <= y
             IN  [acc EXCEPT ![k] =
                     [validatorId |-> acc[k].validatorId,
                      balance |-> pool.balance,
                      totalRewarded |-> acc[k].totalRewarded + pool.totalRewarded,
                      rewardTokenBalance |-> acc[k].rewardTokenBalance + pool.rewardTokenBalance,
                      entryTime |-> Min(acc[k].entryTime, pool.entryTime),
                      pools |-> PushPool(acc[k].pools, pool)]]
        ELSE PushAggregate(acc, [validatorId |-> validatorId,
                                 balance |-> pool.balance,
                                 totalRewarded |-> pool.totalRewarded,
                                 rewardTokenBalance |-> pool.rewardTokenBalance,
                                 entryTime |-> pool.entryTime,
                                 pools |-> <<pool>>])

\* The reduce callback: the first pool of a validator seeds its aggregate,
\* later pools add to it.
GroupByValidator(acc, pool) ==
    LET validatorId == pool.poolKey.validatorId
        found == {k \in 1..Len(acc) : acc[k].validatorId = validatorId}
    IN  IF found # {}
        THEN LET k == CHOOSE x \in found : \A y \in found : x <= y
             IN  [acc EXCEPT ![k] =
                     [validatorId |-> acc[k].validatorId,
                      balance |-> acc[k].balance + pool.balance,
                      totalRewarded |-> acc[k].totalRewarded + pool.totalRewarded,
                      rewardTokenBalance |-> acc[k].rewardTokenBalance + pool.rewardTokenBalance,
                      entryTime |-> Min(acc[k].entryTime, pool.entryTime),
                      pools |-> PushPool(acc[k].pools, pool)]]
        ELSE PushAggregate(acc, [validatorId |-> validatorId,
                                 balance |-> pool.balance,
                                 totalRewarded |-> pool.totalRewarded,
                                 rewardTokenBalance |-> pool.rewardTokenBalance,
                                 entryTime |-> pool.entryTime,
                                 pools |-> <<pool>>])

\* allPools.reduce(..., [])
RECURSIVE Reduce(_, _)
Reduce(allPools, acc) ==
    IF allPools = <<>> THEN acc
    ELSE Reduce(Tail(allPools), GroupByValidator(acc, Head(allPools)))

\* What the function returns once the loop has ended.
BatchReturn(fn, all) == IF fn = "fetchValidators" THEN all ELSE Reduce(all, <<>>)

\* Mutant: every remaining input is fetched in one batch.
BatchLengthUnbounded(n, i) == n - i

\* Math.min(batchSize, n - i)
BatchLength(n, i) == Min(batchSize, n - i)

\* A slot of Promise.all's result array not filled yet.
NoResult == [none |-> TRUE]

\* One turn of the for loop from offset i on: the loop ends and the function
\* returns, or the next batch's fetches are all started and awaited together.
\* started counts the fetches issued per input, batches the sizes of the
\* batches run.
BatchLoop(b, i, all) ==
    IF i < b.n
    THEN LET len == BatchLength(b.n, i)
             inBatch(k) == k > i /\ k <= i + len
         IN  [b EXCEPT !.pc = "batch", !.i = i, !.all = all,
                       !.status = [k \in 1..b.n |->
                                     IF inBatch(k) THEN "pending" ELSE b.status[k]],
                       !.started = [k \in 1..b.n |->
                                     IF inBatch(k) THEN b.started[k] + 1 ELSE b.started[k]],
                       !.batches = Append(b.batches, len),
                       !.batchResults = [j \in 1..len |-> NoResult]]
    ELSE [b EXCEPT !.pc = "returned", !.i = i, !.all = all,
                   !.result = BatchReturn(b.fn, all)]

\* fetchValidators() / fetchStakerValidatorData(staker): the listing read
\* (getNumValidators, getStakedPoolsForAccount) is sent and awaited.
BatchInvoke(fn) ==
    /\ bt.pc = "idle"
    /\ bt' = [BtIdle EXCEPT !.pc = "listing", !.fn = fn]
    /\ UNCHANGED <<txVars, fv, fold, rd, aux>>

\* The listing read returns n inputs. With n = 0 the function returns the
\* empty list.
ListResolve(n) ==
    /\ bt.pc = "listing"
    /\ bt' = BatchLoop([bt EXCEPT !.n = n, !.inputs = BatchInputs(bt.fn, n),
                                  !.status = [k \in 1..n |-> "unstarted"],
                                  !.started = [k \in 1..n |-> 0]],
                       0, <<>>)
    /\ UNCHANGED <<txVars, fv, fold, rd, aux>>

ListReject ==
    /\ bt.pc = "listing"
    /\ bt' = [bt EXCEPT !.pc = "threw", !.error = "listing"]
    /\ UNCHANGED <<txVars, fv, fold, rd, aux>>

\* Mutant: the loop advances by one input instead of one batch.
NextOffsetByOne(i) == i + 1

\* The for loop's increment: i += batchSize.
NextOffset(i) == i + batchSize

\* Mutant: a result is stored in the order the fetches finish.
ResultSlotByCompletion(k, i, resolved) == resolved + 1

\* Promise.all stores a value at the index of its promise in the array:
\* fetch k of the batch started at offset i is promise k - i.
ResultSlot(k, i, resolved) == k - i

\* Fetch k of the batch resolves; when it is the last one, Promise.all hands
\* over the batch's results in the order of its promises, they are pushed and
\* the loop goes on.
FetchResolve(k) ==
    /\ bt.pc \in {"batch", "threw"}
    /\ k \in 1..bt.n
    /\ bt.status[k] = "pending"
    /\ LET len == BatchLength(bt.n, bt.i)
           batch == (bt.i + 1)..(bt.i + len)
           resolved == Cardinality({j \in batch : bt.status[j] = "resolved"})
           b == [bt EXCEPT !.status[k] = "resolved",
                           !.batchResults[ResultSlot(k, bt.i, resolved)] =
                               FetchResult(bt.fn, bt.inputs[k]),
                           !.outOfOrder = @ \/ \E j \in batch :
                                                  j < k /\ bt.status[j] = "pending"]
       IN  bt' = IF b.pc = "batch" /\ \A j \in batch : b.status[j] = "resolved"
                 THEN BatchLoop(b, NextOffset(b.i), b.all \o b.batchResults)
                 ELSE b
    /\ UNCHANGED <<txVars, fv, fold, rd, aux>>

\* Mutant: a failed fetch is recorded and the loop keeps waiting.
FetchRejectIgnored(k) ==
    /\ bt.pc = "batch"
    /\ k \in 1..bt.n
    /\ bt.status[k] = "pending"
    /\ bt.failing = 0
    /\ bt' = [bt EXCEPT !.status[k] = "rejected", !.failing = k]
    /\ UNCHANGED <<txVars, fv, fold, rd, aux>>

\* Fetch k fails: Promise.all rejects, the error is logged and thrown on.
\* The gateway rejects at most one fetch of an invocation.
FetchReject(k) ==
    /\ bt.pc = "batch"
    /\ k \in 1..bt.n
    /\ bt.status[k] = "pending"
    /\ bt.failing = 0
    /\ bt' = [bt EXCEPT !.status[k] = "rejected", !.failing = k, !.pc = "threw",
                        !.error = "fetch"]
    /\ UNCHANGED <<txVars, fv, fold, rd, aux>>

\* The caller has the list or the error, and no fetch is left in flight.
BatchSettled ==
    /\ bt.pc \in {"returned", "threw"}
    /\ \A k \in 1..bt.n : bt.status[k] # "pending"
    /\ bt' = BtIdle
    /\ UNCHANGED <<txVars, fv, fold, rd, aux>>

NextBatch ==
    \/ \E fn \in BatchFns : BatchInvoke(fn)
    \/ \E n \in 0..MaxInputs : ListResolve(n)
    \/ ListReject
    \/ \E k \in 1..MaxInputs : FetchResolve(k)
    \/ \E k \in 1..MaxInputs : FetchReject(k)
    \/ BatchSettled

SpecBatch == Init /\ [][NextBatch]_vars

\* The whole layer, one invocation at a time: a mutating operation or a
\* batch function runs from its call to its settling.
NextLayer ==
    \/ bt.pc = "idle" /\ Next
    \/ pc = "idle" /\ NextBatch

SpecLayer == Init /\ [][NextLayer]_vars

-----------------------------------------------------------------------------
(* The read accessors *)

\* A run makes at most MaxReads accessor calls.
MaxReads == 2

FEE_SINK == "FEE_SINK"
makeEmptyTransactionSigner == "empty"

\* senderAddr: "" stands for the parameter left out (or falsy).
makeSimulateValidatorClient(senderAddr) ==
    [app |-> "registry", sender |-> IF senderAddr = "" THEN FEE_SINK ELSE senderAddr,
     signer |-> makeEmptyTransactionSigner]

makeSimulateStakingPoolClient(senderAddr) ==
    [app |-> "pool", sender |-> IF senderAddr = "" THEN FEE_SINK ELSE senderAddr,
     signer |-> makeEmptyTransactionSigner]

\* The accessors: the contract method each one calls, the app it addresses,
\* and whether its client is a required parameter ("required"), an optional
\* one ("optional") or always built by the accessor itself ("own").
ReadAccessors ==
    [callGetNumValidators |-> [method |-> "getNumValidators", app |-> "registry", client |-> "required"],
     callGetValidatorConfig |-> [method |-> "getValidatorConfig", app |-> "registry", client |-> "required"],
     callGetValidatorState |-> [method |-> "getValidatorState", app |-> "registry", client |-> "required"],
     callGetNodePoolAssignments |-> [method |-> "getNodePoolAssignments", app |-> "registry", client |-> "required"],
     fetchNodePoolAssignments |-> [method |-> "getNodePoolAssignments", app |-> "registry", client |-> "own"],
     callGetTokenPayoutRatio |-> [method |-> "getTokenPayoutRatio", app |-> "registry", client |-> "required"],
     fetchTokenPayoutRatio |-> [method |-> "getTokenPayoutRatio", app |-> "registry", client |-> "own"],
     callGetMbrAmounts |-> [method |-> "getMbrAmounts", app |-> "registry", client |-> "required"],
     fetchMbrAmounts |-> [method |-> "getMbrAmounts", app |-> "registry", client |-> "optional"],
     doesStakerNeedToPayMbr |-> [method |-> "doesStakerNeedToPayMbr", app |-> "registry", client |-> "optional"],
     callFindPoolForStaker |-> [method |-> "findPoolForStaker", app |-> "registry", client |-> "required"],
     isNewStakerToValidator |-> [method |-> "findPoolForStaker", app |-> "registry", client |-> "own"],
     callGetStakedPoolsForAccount |-> [method |-> "getStakedPoolsForAccount", app |-> "registry", client |-> "required"],
     fetchStakedPoolsForAccount |-> [method |-> "getStakedPoolsForAccount", app |-> "registry", client |-> "own"],
     callGetStakerInfo |-> [method |-> "getStakerInfo", app |-> "pool", client |-> "required"],
     fetchStakerPoolData |-> [method |-> "getStakerInfo", app |-> "pool", client |-> "own"],
     callGetProtocolConstraints |-> [method |-> "getProtocolConstraints", app |-> "registry", client |-> "required"],
     fetchProtocolConstraints |-> [method |-> "getProtocolConstraints", app |-> "registry", client |-> "optional"],
     callGetPoolInfo |-> [method |-> "getPoolInfo", app |-> "registry", client |-> "required"],
     fetchPoolInfo |-> [method |-> "getPoolInfo", app |-> "registry", client |-> "optional"],
     callGetPools |-> [method |-> "getPools", app |-> "registry", client |-> "required"],
     fetchValidatorPools |-> [method |-> "getPools", app |-> "registry", client |-> "optional"],
     fetchMaxAvailableToStake |-> [method |-> "getValidatorConfig", app |-> "registry", client |-> "own"]]

\* The calls an accessor sends, one after the other: fetchMaxAvailableToStake
\* awaits the config read and then calls fetchValidatorPools.
ReadMethods(a) ==
    IF a = "fetchMaxAvailableToStake" THEN <<ReadAccessors[a].method, "getPools">>
    ELSE <<ReadAccessors[a].method>>

\* The errors the gateway rejects a call with.
GatewayErrors == {"network error", "rejected by ledger"}

\* The clients callers hand to an accessor: simulate clients, as at every
\* call site of this file, with the default sender or the active address.
CallerClients(app) ==
    IF app = "registry"
    THEN {makeSimulateValidatorClient(""), makeSimulateValidatorClient("activeAddress")}
    ELSE {makeSimulateStakingPoolClient(""), makeSimulateStakingPoolClient("activeAddress")}

ClientArgs(a) ==
    IF ReadAccessors[a].client = "own" THEN {NoClient}
    ELSE IF ReadAccessors[a].client = "optional"
         THEN CallerClients(ReadAccessors[a].app) \cup {NoClient}
         ELSE CallerClients(ReadAccessors[a].app)

\* The client an accessor builds for itself.
OwnClient(a) ==
    IF a = "doesStakerNeedToPayMbr" THEN makeSimulateValidatorClient("activeAddress")
    ELSE IF ReadAccessors[a].app = "pool" THEN makeSimulateStakingPoolClient("")
         ELSE makeSimulateValidatorClient("")

\* const validatorClient = client || makeSimulateValidatorClient()
ClientOf(a, client) == IF client = NoClient THEN OwnClient(a) ELSE client

\* Mutant: the accessor's group is executed.
ExecuteRead(method, client) ==
    [kind |-> "execute", method |-> method, signer |-> client.signer]

\* client.compose().method(...).simulate({allowEmptySignatures, allowUnnamedResources})
SimulateRead(method, client) ==
    [kind |-> "simulate", method |-> method, signer |-> client.signer]

\* The ledger gateway: a simulated group commits nothing, an executed group
\* is committed (the ledger is modelled by the number of groups committed).
GatewayApply(ledger, call) == IF call.kind = "execute" THEN ledger + 1 ELSE ledger

\* Mutant: the error is logged and an empty value returned.
LogAndDefault(e) == ""

\* catch (error) { console.error(error); throw error }; an accessor without
\* a catch block lets the rejection through as it is.
LogAndRethrow(e) == e

\* An accessor is called: it sends its first call to the gateway.
ReadInvoke(a, client) ==
    /\ rd.pc = "idle"
    /\ Len(rd.calls) + Len(ReadMethods(a)) <= MaxReads
    /\ client \in ClientArgs(a)
    /\ rd' = [rd EXCEPT !.pc = "reading", !.accessor = a, !.client = ClientOf(a, client),
                        !.sent = 1,
                        !.calls = Append(@, SimulateRead(ReadMethods(a)[1],
                                                          ClientOf(a, client)))]
    /\ UNCHANGED <<txVars, fv, bt, fold, aux>>

\* The gateway answers and the accessor sends its next call.
ReadNext ==
    /\ rd.pc = "reading"
    /\ rd.sent < Len(ReadMethods(rd.accessor))
    /\ rd' = [rd EXCEPT !.sent = @ + 1,
                        !.ledger = GatewayApply(@, rd.calls[Len(rd.calls)]),
                        !.calls = Append(@, SimulateRead(ReadMethods(rd.accessor)[rd.sent + 1],
                                                          OwnClient(rd.accessor)))]
    /\ UNCHANGED <<txVars, fv, bt, fold, aux>>

\* The gateway answers the accessor's last call and the accessor returns.
ReadReturn ==
    /\ rd.pc = "reading"
    /\ rd.sent = Len(ReadMethods(rd.accessor))
    /\ rd' = [rd EXCEPT !.pc = "returned",
                        !.ledger = GatewayApply(@, rd.calls[Len(rd.calls)])]
    /\ UNCHANGED <<txVars, fv, bt, fold, aux>>

\* The gateway rejects the call with error e and the accessor throws.
ReadThrow(e) ==
    /\ rd.pc = "reading"
    /\ rd' = [rd EXCEPT !.pc = "threw", !.gatewayError = e, !.error = LogAndRethrow(e)]
    /\ UNCHANGED <<txVars, fv, bt, fold, aux>>

\* The caller has the value or the error.
ReadSettled ==
    /\ rd.pc \in {"returned", "threw"}
    /\ rd' = [rd EXCEPT !.pc = "idle", !.accessor = "none", !.client = NoClient,
                        !.sent = 0, !.gatewayError = "", !.error = ""]
    /\ UNCHANGED <<txVars, fv, bt, fold, aux>>

ReadInvokeAny ==
    /\ rd.pc = "idle"
    /\ \E a \in DOMAIN ReadAccessors : \E client \in ClientArgs(a) : ReadInvoke(a, client)

NextReads ==
    \/ ReadInvokeAny
    \/ ReadNext
    \/ ReadReturn
    \/ \E e \in GatewayErrors : ReadThrow(e)
    \/ ReadSettled

SpecReads == Init /\ [][NextReads]_vars

-----------------------------------------------------------------------------
(* addValidator's entry gating value *)

\* A numeric gating value is typed with at most MaxDigits digits.
MaxDigits == 3

\* The form's entryGatingType: a select of '0'..'4', optional in the values.
GatingTypes == {"", "0", "1", "2", "3", "4"}

\* Number(values.entryGatingType || 0)
NumberOfType(t) ==
    IF t \in {"", "0"} THEN 0
    ELSE IF t = "1" THEN 1
    ELSE IF t = "2" THEN 2
    ELSE IF t = "3" THEN 3
    ELSE 4

\* Strings of decimal digits, given by their digits; '' is a value too.
DigitStrings == UNION {[1..n -> 0..9] : n \in 0..MaxDigits}

\* BigInt(string) of a string of decimal digits; BigInt('') is 0n.
RECURSIVE BigInt(_)
BigInt(str) ==
    IF str = <<>> THEN 0
    ELSE 10 * BigInt(SubSeq(str, 1, Len(str) - 1)) + str[Len(str)]

\* Public keys of accounts: 32 bytes.
PublicKeys ==
    { [k \in 1..32 |-> 0], [k \in 1..32 |-> IF k = 32 THEN 1 ELSE 0],
      [k \in 1..32 |-> 255], [k \in 1..32 |-> k] }

RECURSIVE SumBytes(_)
SumBytes(bytes) == IF bytes = <<>> THEN 0 ELSE Head(bytes) + SumBytes(Tail(bytes))

\* The 4 checksum bytes an address carries after its public key (a digest of
\* the key, given here by a function of the key's bytes).
Checksum(key) == <<SumBytes(key) % 256, key[1], key[16], key[32]>>

\* algosdk.encodeAddress: an address is given by the 36 bytes its text
\* stands for, the public key followed by its checksum.
encodeAddress(key) == key \o Checksum(key)

Addresses == {encodeAddress(key) : key \in PublicKeys}

\* algosdk.decodeAddress: splits the 36 bytes and verifies the checksum;
\* anything else is not an address and makes it throw.
decodeAddress(addr) ==
    IF Len(addr) = 36 /\ SubSeq(addr, 33, 36) = Checksum(SubSeq(addr, 1, 32))
    THEN [ok |-> TRUE, publicKey |-> SubSeq(addr, 1, 32), checksum |-> SubSeq(addr, 33, 36)]
    ELSE [ok |-> FALSE, publicKey |-> <<>>, checksum |-> <<>>]

\* Mutant: the checksum is kept with the key.
publicKeyWithChecksum(decoded) == decoded.publicKey \o decoded.checksum

\* algosdk.decodeAddress(...).publicKey
publicKey(decoded) == decoded.publicKey

\* The entry gating value is a byte[32] field of the validator config.
GatingValueWidth == 32

\* n as a big-endian byte string of width w.
RECURSIVE BigEndian(_, _)
BigEndian(n, w) == IF w = 0 THEN <<>> ELSE Append(BigEndian(n \div 256, w - 1), n % 256)

\* gatingValueFromBigint: the number as a fixed-width big-endian byte string.
gatingValueFromBigint(n) == BigEndian(n, GatingValueWidth)

\* Mutant: gating types 1 and 3 are both encoded as addresses.
IsAddressGatingOrNfd(entryGatingType) == entryGatingType \in {1, 3}

\* entryGatingType == 1
IsAddressGating(entryGatingType) == entryGatingType = 1

\* The values the form's validation lets through to addValidator: an address
\* for gating type 1, a string of digits (possibly empty) otherwise.
GatingFormValues ==
    {[type |-> t, value |-> v] : t \in {"1"}, v \in Addresses}
    \cup {[type |-> t, value |-> v] : t \in GatingTypes \ {"1"}, v \in DigitStrings}

notGv == <<txVars, fv, bt, fold, rd, cc, nfd, chain, result, ms>>

\* const entryGatingType = ...; const entryGatingValue = ...
EncodeGatingValue ==
    /\ gv.pc = "values"
    /\ LET entryGatingType == NumberOfType(gv.type)
           decoded == decodeAddress(gv.value)
       IN  gv' = IF IsAddressGating(entryGatingType)
                 THEN IF decoded.ok
                      THEN [gv EXCEPT !.pc = "encoded", !.entryGatingType = entryGatingType,
                                      !.entryGatingValue = publicKey(decoded)]
                      ELSE [gv EXCEPT !.pc = "threw", !.entryGatingType = entryGatingType]
                 ELSE [gv EXCEPT !.pc = "encoded", !.entryGatingType = entryGatingType,
                                 !.entryGatingValue = gatingValueFromBigint(BigInt(gv.value))]
    /\ UNCHANGED notGv

\* The phase-1 group's addValidator call takes validatorConfig.entryGatingValue.
GatingSimulate ==
    /\ gv.pc = "encoded"
    /\ gv' = [gv EXCEPT !.pc = "simulated", !.simulated = gv.entryGatingValue]
    /\ UNCHANGED notGv

\* The phase-2 group's addValidator call takes the same field.
GatingExecute ==
    /\ gv.pc = "simulated"
    /\ gv' = [gv EXCEPT !.pc = "executed", !.executed = gv.entryGatingValue]
    /\ UNCHANGED notGv

InitGating ==
    /\ InitTx /\ fv = FvIdle /\ bt = BtIdle /\ fold = FoldIdle /\ rd = RdIdle
    /\ cc = CcIdle /\ nfd = NfdIdle /\ chain = <<>>
    /\ result = NoReturn /\ ms = MsIdle
    /\ \E values \in GatingFormValues :
          gv = [GvIdle EXCEPT !.pc = "values", !.type = values.type, !.value = values.value]

NextGating ==
    \/ EncodeGatingValue
    \/ GatingSimulate
    \/ GatingExecute

SpecGating == InitGating /\ [][NextGating]_vars

-----------------------------------------------------------------------------
(* The add-validator form's name-directory (NFD) lookup *)

\* The names typed into the NFD field are 1..MaxNames (0: the empty field).
MaxNames == 2

Names == 1..MaxNames

\* The app id the name directory holds for a name.
NfdAppIdOf(name) == 1000 + name

\* What fetchNfd can reject with: an HTTP error response with a status, an
\* axios error without a response, or another error.
LookupErrors ==
    { [axios |-> TRUE, response |-> TRUE, status |-> 404, message |-> "Request failed with status code 404"],
      [axios |-> TRUE, response |-> TRUE, status |-> 400, message |-> "Request failed with status code 400"],
      [axios |-> TRUE, response |-> TRUE, status |-> 500, message |-> "Request failed with status code 500"],
      [axios |-> TRUE, response |-> FALSE, status |-> 0, message |-> "Network Error"],
      [axios |-> FALSE, response |-> FALSE, status |-> 0, message |-> "NFD not owned by active address"] }

\* The error thrown when the owner is not the active address.
NotOwnedError == CHOOSE e \in LookupErrors : ~e.axios

\* Mutant: every HTTP error response gives the generic message.
NfdErrorMessageGeneric(e) ==
    IF e.axios /\ e.response THEN "Failed to fetch NFD" ELSE e.message

\* The catch block's choice of message.
NfdErrorMessage(e) ==
    IF e.axios /\ e.response
    THEN IF e.status = 404 THEN "NFD app ID not found" ELSE "Failed to fetch NFD"
    ELSE e.message

\* Mutant: the flag is cleared on the success path only.
FetchingClearedOnSuccess(outcome) == outcome # "owned"

\* finally { setIsFetchingAppId(false) }: whatever the lookup's outcome.
FetchingAfterLookup(outcome) == FALSE

notNfd == <<txVars, fv, bt, fold, rd, gv, cc, chain, result, ms>>

\* The NFD field's onChange: the field takes the value, nfdAppId is reset,
\* the fetching flag set and the debounced check (re)scheduled.
NfdEdit(value) ==
    /\ nfd.mounted
    /\ nfd' = [nfd EXCEPT !.field = value, !.nfdAppId = 0, !.isFetchingAppId = TRUE,
                          !.debounce = value, !.event = "edit", !.status = 0, !.appIdBefore = nfd.nfdAppId]
    /\ UNCHANGED notNfd

\* The debounced check runs with the value last scheduled: the field is
\* validated (the schema's verdict is `valid`), and the lookup started or
\* the fetching flag cleared.
NfdDebounceFire(valid) ==
    /\ nfd.mounted
    /\ nfd.debounce # 0
    /\ nfd' = IF valid
              THEN [nfd EXCEPT !.debounce = 0, !.lookups = @ \cup {nfd.debounce},
                               !.error = "", !.event = "lookup", !.status = 0,
                               !.appIdBefore = nfd.nfdAppId]
              ELSE [nfd EXCEPT !.debounce = 0, !.isFetchingAppId = FALSE,
                               !.error = "invalid", !.event = "invalid", !.status = 0,
                               !.appIdBefore = nfd.nfdAppId]
    /\ UNCHANGED notNfd

\* fetchNfd(name) resolves with an NFD owned by the active address (owned)
\* or by someone else.
NfdLookupResolve(name, owned) ==
    /\ nfd.mounted
    /\ name \in nfd.lookups
    /\ nfd' = IF owned
              THEN [nfd EXCEPT !.lookups = @ \ {name}, !.error = "",
                               !.nfdAppId = NfdAppIdOf(name),
                               !.isFetchingAppId = FetchingAfterLookup("owned"),
                               !.event = "owned", !.status = 0, !.appIdBefore = nfd.nfdAppId]
              ELSE [nfd EXCEPT !.lookups = @ \ {name},
                               !.error = NfdErrorMessage(NotOwnedError),
                               !.isFetchingAppId = FetchingAfterLookup("not owned"),
                               !.event = "not owned", !.status = 0, !.appIdBefore = nfd.nfdAppId]
    /\ UNCHANGED notNfd

\* fetchNfd(name) rejects with error e.
NfdLookupReject(name, e) ==
    /\ nfd.mounted
    /\ name \in nfd.lookups
    /\ e.axios
    /\ nfd' = [nfd EXCEPT !.lookups = @ \ {name}, !.error = NfdErrorMessage(e),
                          !.isFetchingAppId = FetchingAfterLookup("rejected"),
                          !.event = IF e.response THEN "http" ELSE "network",
                          !.status = e.status,
                          !.appIdBefore = nfd.nfdAppId]
    /\ UNCHANGED notNfd

\* The debounce timer runs out; a lookup in flight is answered.
NfdDebounceFires == \E valid \in BOOLEAN : NfdDebounceFire(valid)
NfdLookupResponds ==
    \/ \E name \in Names, owned \in BOOLEAN : NfdLookupResolve(name, owned)
    \/ \E name \in Names, e \in LookupErrors : NfdLookupReject(name, e)

\* The form is submitted at most MaxSubmits times in a run.
MaxSubmits == 2

\* disabled={isSigning || isFetchingAppId}
SubmitDisabled(form) == form.isSigning \/ form.isFetchingAppId

\* Mutant: the flag is cleared when the submission has ended.
IsSigningCleared(outcome) == FALSE

\* isSigning after onSubmit has ended with outcome: onSubmit sets it to true
\* at its start and has no statement that sets it again.
IsSigningAfter(outcome) == TRUE

\* The submit button is pressed and the form's values pass validation:
\* onSubmit sets isSigning, throws when there is no active address, and
\* otherwise calls addValidator with the form's values and nfdAppId.
NfdSubmit(hasAddress) ==
    /\ nfd.mounted
    /\ ~SubmitDisabled(nfd)
    /\ nfd.submits < MaxSubmits
    /\ nfd' = IF hasAddress
              THEN [nfd EXCEPT !.isSigning = TRUE, !.submit = "signing",
                               !.submits = @ + 1, !.started = @ + 1,
                               !.submitted = [nfdForInfo |-> nfd.field,
                                              nfdAppId |-> nfd.nfdAppId],
                               !.event = "submit", !.status = 0,
                               !.appIdBefore = nfd.nfdAppId]
              ELSE [nfd EXCEPT !.isSigning = IsSigningAfter("no address"),
                               !.submit = "failed", !.submits = @ + 1,
                               !.event = "no address", !.status = 0,
                               !.appIdBefore = nfd.nfdAppId]
    /\ UNCHANGED notNfd

\* addValidator resolves: the success toast is shown and the page left.
NfdSubmitResolve ==
    /\ nfd.mounted
    /\ nfd.submit = "signing"
    /\ nfd' = [nfd EXCEPT !.submit = "done", !.mounted = FALSE,
                          !.isSigning = IsSigningAfter("created"),
                          !.event = "created", !.status = 0,
                          !.appIdBefore = nfd.nfdAppId]
    /\ UNCHANGED notNfd

\* addValidator rejects: the error toast is shown, the form stays.
NfdSubmitReject ==
    /\ nfd.mounted
    /\ nfd.submit = "signing"
    /\ nfd' = [nfd EXCEPT !.submit = "failed",
                          !.isSigning = IsSigningAfter("failed"),
                          !.event = "rejected", !.status = 0,
                          !.appIdBefore = nfd.nfdAppId]
    /\ UNCHANGED notNfd

NextForm ==
    \/ \E value \in Names : NfdEdit(value)
    \/ \E valid \in BOOLEAN : NfdDebounceFire(valid)
    \/ \E name \in Names, owned \in BOOLEAN : NfdLookupResolve(name, owned)
    \/ \E name \in Names, e \in LookupErrors : NfdLookupReject(name, e)
    \/ \E hasAddress \in BOOLEAN : NfdSubmit(hasAddress)
    \/ NfdSubmitResolve
    \/ NfdSubmitReject

SpecForm == Init /\ [][NextForm]_vars

\* The form with a timer that runs out and a name directory that answers:
\* a scheduled check is run and a lookup in flight settles.
SpecFormLive ==
    /\ Init
    /\ [][NextForm]_vars
    /\ WF_vars(NfdDebounceFires)
    /\ WF_vars(NfdLookupResponds)

-----------------------------------------------------------------------------
(* fetchMaxAvailableToStake: the config read, the pools read, the reduce *)

\* maxAlgoPerPool and a pool's totalAlgoStaked range over 0..MaxStake, a
\* validator has at most MaxStakePools pools.
MaxStake == 3
MaxStakePools == 3
Stakes == 0..MaxStake
StakedLists == SeqsUpTo(Stakes, MaxStakePools)

\* Number(x) of a uint64 amount: the same number (exact below 2^53, which
\* microAlgo amounts of a pool are).
Number(x) == x

\* Mutant: the value of the pool visited replaces the accumulator.
KeepLatest(availableToStake, acc) == availableToStake

\* return availableToStake > acc ? availableToStake : acc
KeepHigher(availableToStake, acc) ==
    IF availableToStake > acc THEN availableToStake ELSE acc

\* poolsInfo.reduce((acc, pool) => ..., 0) from accumulator acc on.
RECURSIVE maxAvailableToStake(_, _, _)
maxAvailableToStake(poolsInfo, maxAlgoPerPool, acc) ==
    IF poolsInfo = <<>> THEN acc
    ELSE maxAvailableToStake(Tail(poolsInfo), maxAlgoPerPool,
                             KeepHigher(Number(maxAlgoPerPool)
                                          - Number(Head(poolsInfo).totalAlgoStaked),
                                        acc))

notMs == <<txVars, fv, bt, fold, rd, gv, cc, nfd, chain, result>>

MsRead(name) == [read |-> name, status |-> "pending"]
MsSettle(reads, status) == [reads EXCEPT ![Len(reads)].status = status]

\* fetchMaxAvailableToStake(validatorId): the config read is sent and awaited.
MsInvoke ==
    /\ ms.pc = "idle"
    /\ ms' = [MsIdle EXCEPT !.pc = "config", !.reads = << MsRead("getValidatorConfig") >>]
    /\ UNCHANGED notMs

\* The config read returns a config with maxAlgoPerPool = m: fetchValidatorPools
\* is called, which sends the pools read.
MsConfigResolve(m) ==
    /\ ms.pc = "config"
    /\ ms' = [ms EXCEPT !.pc = "pools", !.maxAlgoPerPool = m,
                        !.reads = Append(MsSettle(@, "ok"), MsRead("getPools"))]
    /\ UNCHANGED notMs

\* The pools read returns the validator's pools, pool k with
\* totalAlgoStaked = staked[k]: the reduce runs and its value is returned.
MsPoolsResolve(staked) ==
    /\ ms.pc = "pools"
    /\ LET poolsInfo == [k \in 1..Len(staked) |->
                            [poolAppId |-> 100 + k, totalStakers |-> 1,
                             totalAlgoStaked |-> staked[k]]]
       IN  ms' = [ms EXCEPT !.pc = "returned", !.poolsInfo = poolsInfo,
                            !.reads = MsSettle(@, "ok"),
                            !.result = maxAvailableToStake(poolsInfo, ms.maxAlgoPerPool, 0)]
    /\ UNCHANGED notMs

\* The read awaited rejects: the error is logged and thrown on.
MsReject ==
    /\ ms.pc \in {"config", "pools"}
    /\ ms' = [ms EXCEPT !.pc = "threw", !.reads = MsSettle(@, "failed"),
                        !.error = LogAndRethrow(ms.reads[Len(ms.reads)].read)]
    /\ UNCHANGED notMs

MsSettled ==
    /\ ms.pc \in {"returned", "threw"}
    /\ ms' = MsIdle
    /\ UNCHANGED notMs

NextMaxStake ==
    \/ MsInvoke
    \/ \E m \in Stakes : MsConfigResolve(m)
    \/ \E staked \in StakedLists : MsPoolsResolve(staked)
    \/ MsReject
    \/ MsSettled

SpecMaxStake == Init /\ [][NextMaxStake]_vars

-----------------------------------------------------------------------------
(* Two invocations of the two-phase operations side by side *)

\* The validator MBR the ledger's schedule may hold ranges over 1..MaxMbr.
MaxMbr == 2
MbrAmounts == 1..MaxMbr
\* The budgets a simulate reports here: none added, a part of one unit, one
\* unit, a unit and a part.
ReportedBudgets == {0, 1, 700, 701}

\* Mutant: the consts are kept in one place for all invocations.
SharedFrame(i) == 1

\* const validatorMbr, const feesAmount: declared in the function body, one
\* set per call of the function.
Frame(i) == i

\* Mutant: the validator MBR of an earlier invocation is used when there is one.
MbrReadCached(earlier, returned) == IF earlier.mbr # 0 THEN earlier.mbr ELSE returned

\* const [validatorMbr] = (await ...getMbrAmounts(...).simulate(...)).returns![0]
MbrRead(earlier, returned) == returned

\* Mutant: the fee of an earlier invocation is used when there is one.
PhaseTwoFeeMemoised(earlier, o, b) ==
    IF earlier.fee # <<>> THEN earlier.fee[1] ELSE ComputeFee(o, b)

\* const feesAmount = AlgoAmount.MicroAlgos(... appBudgetAdded ...), evaluated
\* after the await of the invocation's own simulate.
PhaseTwoFee(earlier, o, b) == ComputeFee(o, b)

notCc == <<txVars, fv, bt, fold, rd, gv, nfd, chain, result, ms>>

SlotSet(i, s, f) ==
    /\ cc' = [cc EXCEPT !.slot[i] = s, !.frame[Frame(i)] = f]
    /\ UNCHANGED notCc

\* The phase-1 simulate of slot s, composed with the consts of frame f.
SlotSimulate(s, f) ==
    [s EXCEPT !.pc = "sim", !.prepIdx = 0,
              !.calls = Append(@, Call("simulate",
                                       SimGroup(s.op, s.args, s.amount, s.pools,
                                                f.validatorMbr), 0))]

SlotInvoke(i, o, a, amt, ps) ==
    /\ cc.slot[i].pc = "idle"
    /\ LET s == [SlotIdle EXCEPT !.op = o, !.args = a, !.amount = amt, !.pools = ps]
       IN  IF PrepSteps(o) # <<>>
           THEN SlotSet(i, [s EXCEPT !.pc = "prep", !.prepIdx = 1,
                                     !.calls = << PrepCall(PrepSteps(o)[1]) >>],
                        FrameEmpty)
           ELSE SlotSet(i, SlotSimulate(s, FrameEmpty), FrameEmpty)

\* The awaited read of slot i returns (m is the validator MBR the ledger's
\* schedule holds at that moment, which getMbrAmounts returns).
SlotPrepResolve(i, m) ==
    /\ cc.slot[i].pc = "prep"
    /\ LET s == cc.slot[i]
           steps == PrepSteps(s.op)
           isMbr == steps[s.prepIdx] = "getMbrAmounts"
           f == IF isMbr
                THEN [cc.frame[Frame(i)] EXCEPT !.validatorMbr = MbrRead(cc.earlier, m)]
                ELSE cc.frame[Frame(i)]
           t == [s EXCEPT !.calls = Settle(@, "ok"),
                          !.mbrRead = IF isMbr THEN m ELSE @]
       IN  /\ isMbr \/ m = 1
           /\ IF s.prepIdx < Len(steps)
              THEN SlotSet(i, [t EXCEPT !.prepIdx = @ + 1,
                                        !.calls = Append(@, PrepCall(steps[s.prepIdx + 1]))],
                           f)
              ELSE SlotSet(i, SlotSimulate(t, f), f)

SlotPrepReject(i) ==
    /\ cc.slot[i].pc = "prep"
    /\ LET s == cc.slot[i]
       IN  SlotSet(i, [s EXCEPT !.pc = "failed", !.calls = Settle(@, "failed"),
                                !.error = PrepSteps(s.op)[s.prepIdx]],
                   cc.frame[Frame(i)])

\* The phase-1 simulate of slot i returns with appBudgetAdded = b.
SlotSimulateResolve(i, b) ==
    /\ cc.slot[i].pc = "sim"
    /\ LET s == cc.slot[i]
           fee == PhaseTwoFee(cc.earlier, s.op, b)
           f == [cc.frame[Frame(i)] EXCEPT !.feesAmount = fee]
           group == ExecGroup(s.op, s.args, s.amount, FALSE, s.pools,
                              f.validatorMbr, f.feesAmount)
       IN  SlotSet(i, [s EXCEPT !.pc = "exec", !.reported = b,
                                !.calls = Append(Settle(@, "ok"),
                                                 Call("execute", group, 0))],
                   f)

SlotSimulateReject(i) ==
    /\ cc.slot[i].pc = "sim"
    /\ SlotSet(i, [cc.slot[i] EXCEPT !.pc = "failed", !.calls = Settle(@, "failed"),
                                     !.error = "simulate"],
               cc.frame[Frame(i)])

SlotExecuteResolve(i) ==
    /\ cc.slot[i].pc = "exec"
    /\ SlotSet(i, [cc.slot[i] EXCEPT !.pc = "done", !.calls = Settle(@, "ok")],
               cc.frame[Frame(i)])

SlotExecuteReject(i) ==
    /\ cc.slot[i].pc = "exec"
    /\ SlotSet(i, [cc.slot[i] EXCEPT !.pc = "failed", !.calls = Settle(@, "failed"),
                                     !.error = "execute"],
               cc.frame[Frame(i)])

\* The promise of slot i settles and its consts go out of scope.
SlotReturn(i) ==
    /\ cc.slot[i].pc \in {"done", "failed"}
    /\ LET s == cc.slot[i]
       IN  cc' = [cc EXCEPT !.slot[i] = SlotIdle,
                            !.frame[Frame(i)] = FrameEmpty,
                            !.earlier = [fee |-> IF s.reported >= 0
                                                 THEN << cc.frame[Frame(i)].feesAmount >>
                                                 ELSE @.fee,
                                         mbr |-> IF s.mbrRead # 0 THEN s.mbrRead
                                                 ELSE @.mbr]]
    /\ UNCHANGED notCc

SlotInvokeAny(i) ==
    /\ cc.slot[i].pc = "idle"
    /\ \E o \in TwoPhaseOps, amt \in Amounts \cup {0} :
           /\ amt = 0 <=> ~TakesAmount(o)
           /\ SlotInvoke(i, o, IF TakesArgs(o) THEN 1 ELSE 0, amt,
                         IF PoolScoped(o) \/ o = "claimTokens" THEN <<1>> ELSE <<>>)

NextInvocations ==
    \/ \E i \in Slots : SlotInvokeAny(i)
    \/ \E i \in Slots, m \in MbrAmounts : SlotPrepResolve(i, m)
    \/ \E i \in Slots : SlotPrepReject(i)
    \/ \E i \in Slots, b \in ReportedBudgets : SlotSimulateResolve(i, b)
    \/ \E i \in Slots : SlotSimulateReject(i)
    \/ \E i \in Slots : SlotExecuteResolve(i)
    \/ \E i \in Slots : SlotExecuteReject(i)
    \/ \E i \in Slots : SlotReturn(i)

SpecInvocations == Init /\ [][NextInvocations]_vars

-----------------------------------------------------------------------------
(* Every operation of the layer, one invocation at a time *)

NextOperations ==
    \/ fv = FvIdle /\ bt = BtIdle /\ rd = RdIdle /\ Next
    \/ pc = "idle" /\ bt = BtIdle /\ rd = RdIdle /\ NextValidator
    \/ pc = "idle" /\ fv = FvIdle /\ rd = RdIdle /\ NextBatch
    \/ pc = "idle" /\ fv = FvIdle /\ bt = BtIdle /\ NextReads

SpecOperations == Init /\ [][NextOperations]_vars

-----------------------------------------------------------------------------
(* The reduce of fetchStakerValidatorData over arbitrary lists of pool records *)

\* The reduce is given lists of at most MaxFoldLen pool records of
\* MaxFoldValidators validators.
MaxFoldLen == 3
MaxFoldValidators == 2

FoldValidators == 7..(6 + MaxFoldValidators)

\* What the ledger holds for a staker in a pool (getStakerInfo's result).
StakedInfos ==
    { [balance |-> 100, totalRewarded |-> 5, rewardTokenBalance |-> 0, entryTime |-> 1000],
      [balance |-> 50, totalRewarded |-> 0, rewardTokenBalance |-> 3, entryTime |-> 2000],
      [balance |-> 100, totalRewarded |-> 1, rewardTokenBalance |-> 1, entryTime |-> 2000] }

\* The StakerPoolData fetchStakerPoolData returns for the k-th pool key of
\* the staker, a pool of validator v holding info for the staker.
StakerPoolData(v, info, k) ==
    [poolKey |-> [validatorId |-> v, poolId |-> k, poolAppId |-> 100 + k],
     balance |-> info.balance, totalRewarded |-> info.totalRewarded,
     rewardTokenBalance |-> info.rewardTokenBalance, entryTime |-> info.entryTime]

\* The lists allPools the reduce can be given.
FoldInputs ==
    UNION { { [k \in 1..n |-> StakerPoolData(f[k][1], f[k][2], k)] :
                f \in [1..n -> FoldValidators \X StakedInfos] } : n \in 0..MaxFoldLen }

\* allPools.reduce(...) runs over the collected list and its result is
\* returned.
ReducePools ==
    /\ fold.pc = "collected"
    /\ fold' = [fold EXCEPT !.pc = "returned", !.result = Reduce(fold.allPools, <<>>)]
    /\ UNCHANGED <<txVars, fv, bt, rd, aux>>

InitFold ==
    /\ InitTx /\ fv = FvIdle /\ bt = BtIdle /\ rd = RdIdle /\ InitAux
    /\ \E allPools \in FoldInputs :
          fold = [pc |-> "collected", allPools |-> allPools, result |-> <<>>]

NextFold == ReducePools

SpecFold == InitFold /\ [][NextFold]_vars

-----------------------------------------------------------------------------
(* Properties of the mutating operations (checked under Spec) *)

\* The contract method an operation's group exists to call.
LogicalMethod(o) ==
    CASE o = "addStakingPool" -> "addPool"
      [] o = "initStakingPoolStorage" -> "initStorage"
      [] OTHER -> o

IsLogical(t) == t.type = "appl" /\ t.method = LogicalMethod(op)

CallIdx == 1..Len(calls)
IsExecute(i) == calls[i].kind = "execute"
\* The phase-1 simulate: the simulate of a group holding the logical call
\* (addValidator's getMbrAmounts read is a simulate too).
IsPhase1(i) ==
    /\ calls[i].kind = "simulate"
    /\ \E k \in 1..Len(calls[i].group) : IsLogical(calls[i].group[k])

\* Two groups make the same calls: same length, and position by position the
\* same transaction type, method and application.
SameCalls(g, h) ==
    /\ Len(g) = Len(h)
    /\ \A k \in 1..Len(g) :
          /\ g[k].type = h[k].type
          /\ g[k].method = h[k].method
          /\ g[k].app = h[k].app

PrecededBySimulate(i) ==
    \E j \in 1..(i - 1) :
        /\ IsPhase1(j)
        /\ calls[j].status = "ok"
        /\ SameCalls(calls[j].group, calls[i].group)

\* C1 as stated: in every invocation of every state-mutating operation, an
\* execute is sent only after a simulate of the equivalent group has been sent
\* and has returned successfully.
C1_EveryOperationTwoPhase ==
    \A i \in CallIdx : IsExecute(i) => PrecededBySimulate(i)

\* C1 amended: addValidator, addStake, removeStake, epochBalanceUpdate and
\* claimTokens send an execute only after a simulate of the equivalent group
\* has returned successfully; addStakingPool and initStakingPoolStorage send
\* their execute without any simulate.
C1_TwoPhaseOperations ==
    \A i \in CallIdx :
        IsExecute(i) =>
            /\ op \in {"addValidator", "addStake", "removeStake", "epochBalanceUpdate",
                       "claimTokens"} => PrecededBySimulate(i)
            /\ op \in {"addStakingPool", "initStakingPoolStorage"} =>
                   \A j \in CallIdx : calls[j].kind # "simulate"

C1_Witness ==
    /\ op = "removeStake"
    /\ pc = "done"
    /\ \E i \in CallIdx : IsExecute(i) /\ PrecededBySimulate(i)

\* C2: when the phase-1 simulate of a two-phase operation fails, the operation
\* fails with that error, no fee is computed and no execute is ever sent.
C2_SimulateFailureStops ==
    \A i \in CallIdx :
        (IsPhase1(i) /\ calls[i].status = "failed") =>
            /\ pc = "failed"
            /\ error = "simulate"
            /\ budget = -1
            /\ feesAmount = NoFee
            /\ \A j \in CallIdx : ~IsExecute(j)

C2_Witness ==
    /\ op = "claimTokens"
    /\ pc = "failed"
    /\ \E i \in CallIdx : IsPhase1(i) /\ calls[i].status = "failed"

\* ceil(b / u): the one n with (n - 1) * u < b <= n * u; it is at most
\* b \div u + 1.
CeilDiv(b, u) == CHOOSE n \in 0..(b \div u + 1) : n * u >= b /\ (n - 1) * u < b

\* The simulated-derived minimum fee ceil(b / 700) * 1000.
MinimumFee(b) == Rat(1000 * CeilDiv(b, 700), 1)

FeeOf(t) == Rat(t.fee.n, t.fee.d)

\* C3: the fee attached to the logical call of the phase-2 group is at least
\* ceil(b / 700) * 1000, b the budget the phase-1 simulate reported.
C3_FeeAtLeastMinimum ==
    \A i \in CallIdx :
        (IsExecute(i) /\ op \in TwoPhaseOps) =>
            /\ budget >= 0
            /\ \A k \in 1..Len(calls[i].group) :
                  IsLogical(calls[i].group[k]) =>
                      /\ calls[i].group[k].fee.set
                      /\ RatGeq(FeeOf(calls[i].group[k]), MinimumFee(budget))

C3_Witness ==
    /\ op = "addStake"
    /\ pc = "exec"
    /\ budget = 701
    /\ \E k \in 1..Len(calls[Len(calls)].group) :
          /\ IsLogical(calls[Len(calls)].group[k])
          /\ RatGeq(FeeOf(calls[Len(calls)].group[k]), MinimumFee(budget))

\* C4: in addValidator, removeStake and claimTokens the computed fee
\* 1000 * floor((b + 699) / 700) is ceil(b / 700) * 1000, and it is the fee
\* the logical calls of the executed group carry.
C4_RoundedUpFee ==
    (op \in {"addValidator", "removeStake", "claimTokens"} /\ budget >= 0) =>
        /\ feesAmount = MinimumFee(budget)
        /\ \A i \in CallIdx :
              IsExecute(i) =>
                  \A k \in 1..Len(calls[i].group) :
                      IsLogical(calls[i].group[k]) =>
                          FeeOf(calls[i].group[k]) = MinimumFee(budget)

C4_Witness ==
    /\ op = "claimTokens"
    /\ pc = "exec"
    /\ budget = 701
    /\ feesAmount = Rat(2000, 1)

Surcharge(o) == IF o = "addStake" THEN 2000 ELSE 3000

\* C5 as stated: in addStake and epochBalanceUpdate the fee attached in phase 2
\* is ceil(b / 700) * 1000 plus the surcharge (2000, 3000), a whole number of
\* fee-units for every b.
C5_SurchargedFeeRoundedUp ==
    (op \in {"addStake", "epochBalanceUpdate"} /\ budget >= 0) =>
        /\ IsWhole(feesAmount)
        /\ RatEq(feesAmount, Rat(1000 * CeilDiv(budget, 700) + Surcharge(op), 1))

\* The two groups of a two-phase operation are equivalent: the same calls in
\* the same order with the same notes, arguments and payment; a fee differs
\* only on the logical call (the signer differs throughout).
EquivalentGroups(g, h) ==
    /\ SameCalls(g, h)
    /\ \A k \in 1..Len(g) :
          /\ g[k].note = h[k].note
          /\ g[k].args = h[k].args
          /\ g[k].amount = h[k].amount
          /\ ~IsLogical(g[k]) => g[k].fee = h[k].fee

\* C6 as stated: the group executed in phase 2 differs from the group
\* simulated in phase 1 only in the signer and in the fee of the logical call.
C6_Phase2GroupEquivalent ==
    \A i \in CallIdx :
        (IsExecute(i) /\ op \in TwoPhaseOps) =>
            \E j \in 1..(i - 1) :
                IsPhase1(j) /\ EquivalentGroups(calls[j].group, calls[i].group)

\* The payment immediately precedes the logical call in the group.
PaymentPrecedesLogical(g) ==
    \E k \in 1..(Len(g) - 1) : g[k].type = "pay" /\ IsLogical(g[k + 1])

\* C7: in addValidator and addStake the payment precedes the logical call in
\* the simulated and in the executed group; the group linkage the payment got
\* from the simulate is removed once the simulate has returned, before the
\* phase-2 group is composed, so the payment executed carries the linkage of
\* the phase-2 group and never that of phase 1.
C7_PaymentOrderAndRelinking ==
    op \in {"addValidator", "addStake"} =>
        \A i \in CallIdx :
            /\ (IsPhase1(i) \/ IsExecute(i)) => PaymentPrecedesLogical(calls[i].group)
            /\ (IsPhase1(i) /\ calls[i].status = "pending") => payGroup = i
            /\ (IsPhase1(i) /\ calls[i].status = "ok") =>
                  /\ Len(calls) = i + 1
                  /\ IsExecute(i + 1)
                  /\ calls[i + 1].payLink = 0
                  /\ payGroup = i + 1

C7_Witness ==
    /\ op = "addStake"
    /\ pc = "exec"
    /\ payGroup = Len(calls)
    /\ calls[Len(calls)].payLink = 0
    /\ PaymentPrecedesLogical(calls[Len(calls)].group)

-----------------------------------------------------------------------------
(* Properties of fetchValidator (checked under SpecValidator) *)

AllResolved ==
    /\ fv.pc # "idle"
    /\ \A r \in ReadIdx : fv.reads[r].status = "resolved"

Present(r) == fv.reads[r].status = "resolved" /\ fv.reads[r].value.defined

\* C8: fetchValidator returns a Validator only when all five reads returned a
\* present value, and then every sub-field holds the value read; when the five
\* have resolved and one is absent it throws ValidatorNotFoundError and
\* returns no object.
C8_ValidatorOnlyWhenAllPresent ==
    /\ fv.pc = "returned" =>
          /\ \A r \in ReadIdx : Present(r)
          /\ fv.validator = [config |-> fv.reads[1].value.items,
                             state |-> fv.reads[2].value.items,
                             pools |-> fv.reads[3].value.items,
                             tokenPayoutRatio |-> fv.reads[4].value.items,
                             nodePoolAssignment |-> fv.reads[5].value.items]
    /\ (AllResolved /\ \E r \in ReadIdx : ~Present(r)) =>
          /\ fv.pc = "threw"
          /\ fv.error = "ValidatorNotFoundError"
          /\ fv.validator = NoValidator

C8_Witness ==
    /\ AllResolved
    /\ \A r \in 1..4 : Present(r)
    /\ ~Present(5)
    /\ fv.pc = "threw"
    /\ fv.error = "ValidatorNotFoundError"

EmptyPoolDirectory ==
    /\ AllResolved
    /\ \A r \in ReadIdx : Present(r)
    /\ fv.reads[3].value.items = <<>>

\* C9 as stated: when the pool-directory read returns an empty list and the
\* other four reads return values, fetchValidator throws the not-found error.
C9_EmptyPoolsNotFound ==
    EmptyPoolDirectory => (fv.pc = "threw" /\ fv.error = "ValidatorNotFoundError")

\* C9 amended: when the pool-directory read returns an empty list and the
\* other four reads return values, fetchValidator returns a Validator whose
\* pool list is empty; it throws the not-found error when the pool-directory
\* read has no return value at all.
C9_EmptyPoolsReturned ==
    /\ EmptyPoolDirectory =>
          /\ fv.pc = "returned"
          /\ fv.error = ""
          /\ fv.validator.pools = <<>>
    /\ (AllResolved /\ ~Present(3)) =>
          (fv.pc = "threw" /\ fv.error = "ValidatorNotFoundError")

C9_Witness ==
    /\ EmptyPoolDirectory
    /\ fv.pc = "returned"
    /\ fv.validator.pools = <<>>

\* C22: fetchValidator has sent all five reads before any of them resolves,
\* returns a validator only when all five have resolved, and throws without
\* a validator when one of the five fails, whatever the order of the five
\* responses.
C22_FiveReadsJoined ==
    /\ fv.pc # "idle" => \A r \in ReadIdx : fv.reads[r].status # "unstarted"
    /\ fv.pc = "returned" => \A r \in ReadIdx : fv.reads[r].status = "resolved"
    /\ (fv.pc # "idle" /\ \E r \in ReadIdx : fv.reads[r].status = "rejected") =>
          /\ fv.pc = "threw"
          /\ fv.validator = NoValidator
          /\ \E r \in ReadIdx : fv.reads[r].status = "rejected" /\ fv.error = ReadNames[r]

C22_Witness ==
    /\ fv.pc = "threw"
    /\ fv.reads[1].status = "pending"
    /\ fv.reads[3].status = "rejected"
    /\ fv.reads[5].status = "resolved"
    /\ fv.error = "pools"

-----------------------------------------------------------------------------
(* Properties of the batch loops (checked under SpecBatch) *)

\* The batch (0, 1, ...) input k is fetched in.
BatchOf(k) == (k - 1) \div batchSize
Started(k) == bt.status[k] # "unstarted"
InFlight == {k \in 1..bt.n : bt.status[k] = "pending"}

\* C10: in fetchStakerValidatorData and fetchValidators a fetch of a later
\* batch is started only when every fetch of each earlier batch has resolved,
\* and at no time are more than 10 fetches of the invocation in flight.
C10_BatchesSequential ==
    /\ \A j \in 1..bt.n, k \in 1..bt.n :
          (Started(k) /\ BatchOf(j) < BatchOf(k)) => bt.status[j] = "resolved"
    /\ Cardinality(InFlight) <= 10

C10_Witness ==
    /\ bt.pc = "batch"
    /\ bt.n > batchSize
    /\ \A k \in 1..batchSize : bt.status[k] = "resolved"
    /\ bt.status[batchSize + 1] = "pending"

\* The input a fetched result was read for.
InputOf(fn, r) == IF fn = "fetchValidators" THEN r.id ELSE r.poolKey

\* C11: in both batch loops, for every order in which the fetches of a batch
\* complete, the i-th collected result belongs to the i-th input (pool key
\* or validator id): the collected list is in input order.
C11_ResultsInInputOrder ==
    /\ Len(bt.all) <= bt.n
    /\ \A j \in 1..Len(bt.all) : InputOf(bt.fn, bt.all[j]) = bt.inputs[j]
    /\ (bt.pc = "returned" /\ bt.fn = "fetchValidators") => bt.result = bt.all

C11_Witness ==
    /\ bt.pc = "returned"
    /\ bt.outOfOrder
    /\ bt.n > batchSize
    /\ Len(bt.all) = bt.n

\* C12: for N inputs the loop runs exactly ceil(N / 10) batches, each but
\* the last of 10 inputs and the last of N - 10 * (ceil(N / 10) - 1); no input
\* is fetched twice, and on success every input was fetched exactly once and
\* the collected list has length N.
C12_BatchCountAndSizes ==
    LET batches == CeilDiv(bt.n, batchSize)
    IN  /\ \A k \in 1..Len(bt.started) : bt.started[k] <= 1
        /\ bt.pc = "returned" =>
              /\ Len(bt.batches) = batches
              /\ \A b \in 1..(batches - 1) : bt.batches[b] = batchSize
              /\ batches > 0 => bt.batches[batches] = bt.n - batchSize * (batches - 1)
              /\ \A k \in 1..bt.n : bt.started[k] = 1
              /\ Len(bt.all) = bt.n

C12_Witness ==
    /\ bt.pc = "returned"
    /\ bt.n = 23
    /\ bt.batches = <<10, 10, 3>>
    /\ Len(bt.all) = 23

\* C13: when a fetch of a batch (or the listing read) fails, the aggregate
\* operation fails: it returns no list, not even a partial one, and no fetch
\* of a later batch is started.
C13_FailureFailsWhole ==
    LET rejected == {k \in 1..bt.n : bt.status[k] = "rejected"}
    IN  /\ (rejected # {} \/ bt.error # "") =>
              /\ bt.pc = "threw"
              /\ bt.result = <<>>
        /\ \A k \in rejected, j \in 1..bt.n :
              BatchOf(j) > BatchOf(k) => bt.status[j] = "unstarted"
        /\ bt.pc = "returned" => bt.error = ""

C13_Witness ==
    /\ bt.pc = "threw"
    /\ bt.n > batchSize
    /\ bt.failing \in 1..batchSize
    /\ \A k \in 1..batchSize : k # bt.failing => bt.status[k] = "resolved"
    /\ bt.status[batchSize + 1] = "unstarted"
    /\ bt.result = <<>>

\* C18: fetchValidators starts no validator fetch before the count read has
\* completed, then fetches the ids 1..N, each once, and returns the N
\* validators in ascending id order; for a count of 0 it returns the empty
\* list without any validator read.
C18_FetchValidatorsOrder ==
    bt.fn = "fetchValidators" =>
        /\ bt.pc = "listing" => (bt.started = <<>> /\ bt.status = <<>>)
        /\ \A k \in 1..Len(bt.inputs) : bt.inputs[k] = k
        /\ \A k \in 1..Len(bt.started) : bt.started[k] <= 1
        /\ bt.pc = "returned" =>
              /\ \A k \in 1..bt.n : bt.started[k] = 1
              /\ bt.result = [k \in 1..bt.n |-> [id |-> k]]
              /\ bt.n = 0 => (bt.result = <<>> /\ bt.batches = <<>>)

C18_Witness ==
    /\ bt.fn = "fetchValidators"
    /\ bt.pc = "returned"
    /\ bt.n > batchSize
    /\ bt.outOfOrder
    /\ bt.result[bt.n] = [id |-> bt.n]

-----------------------------------------------------------------------------
(* Properties of the reduce (checked under SpecFold) *)

ValidatorIdsOf(l) == {l[k].poolKey.validatorId : k \in 1..Len(l)}

\* The positions of validator v's pools in the list l.
Constituents(l, v) == {k \in 1..Len(l) : l[k].poolKey.validatorId = v}

RECURSIVE SumOver(_, _, _)
SumOver(l, S, field) ==
    IF S = {} THEN 0
    ELSE LET k == CHOOSE x \in S : TRUE
         IN  l[k][field] + SumOver(l, S \ {k}, field)

Least(S) == CHOOSE m \in S : \A x \in S : m <= x

\* The number of validators whose first pool in l comes no later than v's.
Rank(l, v) ==
    Cardinality({w \in ValidatorIdsOf(l) :
                    Least(Constituents(l, w)) <= Least(Constituents(l, v))})

Perms(n) == {p \in [1..n -> 1..n] : \A a \in 1..n, b \in 1..n : p[a] = p[b] => a = b}
Permute(l, p) == [k \in 1..Len(l) |-> l[p[k]]]

SeqToSet(q) == {q[k] : k \in 1..Len(q)}

\* Two aggregates with the same field values and the same constituent pools,
\* in whatever order.
SameAggregate(a, b) ==
    /\ a.validatorId = b.validatorId
    /\ a.balance = b.balance
    /\ a.totalRewarded = b.totalRewarded
    /\ a.rewardTokenBalance = b.rewardTokenBalance
    /\ a.entryTime = b.entryTime
    /\ Len(a.pools) = Len(b.pools)
    /\ SeqToSet(a.pools) = SeqToSet(b.pools)

\* C14: in the reduce's output every aggregate's balance, totalRewarded and
\* rewardTokenBalance are the sums of those fields over the validator's pools
\* in the input, its entryTime is their minimum entryTime, its pools are
\* those pools, and each distinct validatorId of the input has exactly one
\* aggregate.
C14_AggregatesSumAndMin ==
    fold.pc = "returned" =>
        LET l == fold.allPools
            out == fold.result
        IN  /\ \A a \in 1..Len(out) :
                  LET S == Constituents(l, out[a].validatorId)
                  IN  /\ S # {}
                      /\ out[a].balance = SumOver(l, S, "balance")
                      /\ out[a].totalRewarded = SumOver(l, S, "totalRewarded")
                      /\ out[a].rewardTokenBalance = SumOver(l, S, "rewardTokenBalance")
                      /\ out[a].entryTime = Least({l[k].entryTime : k \in S})
                      /\ Len(out[a].pools) = Cardinality(S)
                      /\ SeqToSet(out[a].pools) = {l[k] : k \in S}
            /\ \A v \in ValidatorIdsOf(l) :
                  Cardinality({a \in 1..Len(out) : out[a].validatorId = v}) = 1

C14_Witness ==
    /\ fold.pc = "returned"
    /\ \E a \in 1..Len(fold.result) :
          /\ fold.result[a].validatorId = 7
          /\ fold.result[a].balance = 150
          /\ fold.result[a].entryTime = 1000
          /\ Len(fold.result[a].pools) = 2
          /\ fold.result[a].pools[1].entryTime = 2000

\* C15: for every permutation of the input list the reduce yields, for each
\* validator, the same balance, totalRewarded, rewardTokenBalance and
\* entryTime and the same set of pools.
C15_SumsPermutationInvariant ==
    fold.pc = "returned" =>
        \A p \in Perms(Len(fold.allPools)) :
            LET out == Reduce(Permute(fold.allPools, p), <<>>)
            IN  /\ \A a \in 1..Len(fold.result) : \E b \in 1..Len(out) :
                      SameAggregate(fold.result[a], out[b])
                /\ \A b \in 1..Len(out) : \E a \in 1..Len(fold.result) :
                      SameAggregate(fold.result[a], out[b])

C15_Witness ==
    /\ fold.pc = "returned"
    /\ Len(fold.allPools) = MaxFoldLen
    /\ Len(fold.result) = 2
    /\ \E a \in 1..2 :
          /\ Len(fold.result[a].pools) = 2
          /\ fold.result[a].pools[1].entryTime > fold.result[a].pools[2].entryTime
          /\ fold.result[a].pools[1].balance # fold.result[a].pools[2].balance

\* C16 as stated: for every permutation of the input list the reduce yields
\* the same aggregates at the same positions with the same field values.
C16_OutputPermutationInvariant ==
    fold.pc = "returned" =>
        \A p \in Perms(Len(fold.allPools)) :
            LET out == Reduce(Permute(fold.allPools, p), <<>>)
            IN  /\ Len(out) = Len(fold.result)
                /\ \A a \in 1..Len(out) : SameAggregate(fold.result[a], out[a])

\* C16 amended: for every permutation of the input list the reduce yields
\* the same aggregates with the same field values; the position of an
\* aggregate in the output is the rank of its validator's first pool in the
\* permuted input, so it moves with the permutation.
C16_AggregatesUpToPosition ==
    fold.pc = "returned" =>
        \A p \in Perms(Len(fold.allPools)) :
            LET lp == Permute(fold.allPools, p)
                out == Reduce(lp, <<>>)
            IN  /\ Len(out) = Len(fold.result)
                /\ \A b \in 1..Len(out) :
                      /\ b = Rank(lp, out[b].validatorId)
                      /\ \E a \in 1..Len(fold.result) : SameAggregate(fold.result[a], out[b])

C16_Witness ==
    /\ fold.pc = "returned"
    /\ Len(fold.result) = 2
    /\ \E p \in Perms(Len(fold.allPools)) :
          LET out == Reduce(Permute(fold.allPools, p), <<>>)
          IN  /\ out[1].validatorId = fold.result[2].validatorId
              /\ SameAggregate(out[1], fold.result[2])
              /\ SameAggregate(out[2], fold.result[1])

\* C17: the aggregates are listed in the order in which their validatorId
\* first occurs in the input (no sorting), and each aggregate's pools list
\* holds the validator's pools in their input order.
C17_FirstOccurrenceOrder ==
    fold.pc = "returned" =>
        LET l == fold.allPools
            out == fold.result
        IN  /\ Len(out) = Cardinality(ValidatorIdsOf(l))
            /\ \A a \in 1..Len(out) :
                  /\ a = Rank(l, out[a].validatorId)
                  /\ out[a].pools =
                        SelectSeq(l, LAMBDA r : r.poolKey.validatorId = out[a].validatorId)

C17_Witness ==
    /\ fold.pc = "returned"
    /\ Len(fold.result) = 2
    /\ fold.result[1].validatorId > fold.result[2].validatorId
    /\ Len(fold.result[1].pools) = 2
    /\ fold.result[1].pools[1].poolKey.poolId + 1 < fold.result[1].pools[2].poolKey.poolId

-----------------------------------------------------------------------------
(* Properties of the read accessors (checked under SpecReads) *)

\* C19: every call a read accessor sends to the gateway is a simulate call
\* signed by the empty signer, never an execute call, and after any sequence
\* of read accessors the ledger is as it was.
C19_ReadsSimulateOnly ==
    /\ \A k \in 1..Len(rd.calls) :
          /\ rd.calls[k].kind = "simulate"
          /\ rd.calls[k].signer = makeEmptyTransactionSigner
    /\ rd.ledger = RdIdle.ledger

C19_Witness ==
    /\ rd.pc = "idle"
    /\ Len(rd.calls) = MaxReads
    /\ rd.calls[1].method = "getValidatorConfig"
    /\ rd.calls[2].method = "doesStakerNeedToPayMbr"

-----------------------------------------------------------------------------
(* Properties of the whole layer (checked under SpecLayer) *)

\* C20: within one invocation of a mutating operation at most one simulate
\* and at most one execute of its group are sent, and a failed call is the
\* invocation's last call and leaves it failed; within one invocation of a
\* batch function each input is fetched at most once, and after a failed
\* fetch the function has thrown and starts no fetch of a later batch.
C20_NoRetries ==
    /\ Cardinality({i \in CallIdx : IsPhase1(i)}) <= 1
    /\ Cardinality({i \in CallIdx : IsExecute(i)}) <= 1
    /\ \A i \in CallIdx :
          calls[i].status = "failed" => (i = Len(calls) /\ pc = "failed")
    /\ \A k \in 1..Len(bt.started) : bt.started[k] <= 1
    /\ \A k \in 1..Len(bt.status) :
          bt.status[k] = "rejected" =>
              /\ bt.pc = "threw"
              /\ \A j \in 1..bt.n : BatchOf(j) > BatchOf(k) => bt.started[j] = 0

C20_Witness ==
    /\ op = "epochBalanceUpdate"
    /\ pc = "failed"
    /\ error = "execute"
    /\ Len(calls) = 2
    /\ IsPhase1(1) /\ calls[1].status = "ok"
    /\ IsExecute(2) /\ calls[2].status = "failed"

-----------------------------------------------------------------------------
(* Properties of all operations (checked under SpecOperations) *)

\* The error a failed gateway call of a mutating operation raises.
ErrorOfCall(i) ==
    IF IsExecute(i) THEN "execute"
    ELSE IF IsPhase1(i) THEN "simulate"
    ELSE IF calls[i].kind = "simulate" THEN "getMbrAmounts"
    ELSE calls[i].kind

\* C21: when a gateway call an operation awaits fails, the operation ends in
\* failure with the error of a failed call: a mutating operation is failed
\* with the failed call's error and not done, fetchValidator and the batch
\* functions have thrown without a result, and a read accessor throws the
\* error the gateway rejected its call with.
C21_ErrorsPropagate ==
    /\ \A i \in CallIdx :
          calls[i].status = "failed" => (pc = "failed" /\ error = ErrorOfCall(i))
    /\ (fv.pc # "idle" /\ \E r \in ReadIdx : fv.reads[r].status = "rejected") =>
          /\ fv.pc = "threw"
          /\ fv.validator = NoValidator
          /\ \E r \in ReadIdx : fv.reads[r].status = "rejected" /\ fv.error = ReadNames[r]
    /\ (\E k \in 1..Len(bt.status) : bt.status[k] = "rejected") =>
          (bt.pc = "threw" /\ bt.error = "fetch" /\ bt.result = <<>>)
    /\ bt.error = "listing" => (bt.pc = "threw" /\ bt.result = <<>>)
    /\ rd.gatewayError # "" => (rd.pc = "threw" /\ rd.error = rd.gatewayError)
    /\ rd.pc = "threw" => rd.gatewayError \in GatewayErrors

C21_Witness ==
    /\ rd.pc = "threw"
    /\ rd.accessor = "fetchMaxAvailableToStake"
    /\ rd.sent = 2
    /\ rd.error = "network error"

-----------------------------------------------------------------------------
(* Properties of the gating-value codec (checked under SpecGating) *)

\* The number a string of decimal digits writes, leading zeros and all.
RECURSIVE TypedNumber(_)
TypedNumber(str) ==
    IF str = <<>> THEN 0 ELSE str[1] * 10 ^ (Len(str) - 1) + TypedNumber(Tail(str))

\* The number a big-endian byte string stands for.
RECURSIVE FromBigEndian(_)
FromBigEndian(bytes) ==
    IF bytes = <<>> THEN 0
    ELSE 256 * FromBigEndian(SubSeq(bytes, 1, Len(bytes) - 1)) + bytes[Len(bytes)]

\* The registry's reading of a stored gating value: the account with that
\* public key for gating type 1, the number otherwise.
DecodeGatingValue(entryGatingType, bytes) ==
    IF entryGatingType = 1 THEN encodeAddress(bytes) ELSE FromBigEndian(bytes)

\* C25: the encoding of the gating value is chosen by the gating type alone:
\* for type 1 it is the 32-byte public key of the given address, for types
\* 0, 2, 3 and 4 the number as a 32-byte big-endian string; the phase-1 and
\* the phase-2 call are given that same value.
C25_EncodingByGatingType ==
    /\ gv.pc # "threw"
    /\ gv.pc \in {"encoded", "simulated", "executed"} =>
          /\ Len(gv.entryGatingValue) = GatingValueWidth
          /\ \A k \in 1..GatingValueWidth : gv.entryGatingValue[k] \in 0..255
          /\ gv.type = "1" =>
                /\ gv.entryGatingType = 1
                /\ gv.entryGatingValue = SubSeq(gv.value, 1, 32)
          /\ gv.type # "1" =>
                /\ gv.entryGatingType \in {0, 2, 3, 4}
                /\ FromBigEndian(gv.entryGatingValue) = TypedNumber(gv.value)
    /\ gv.pc \in {"simulated", "executed"} => gv.simulated = gv.entryGatingValue
    /\ gv.pc = "executed" => gv.executed = gv.simulated

C25_Witness ==
    /\ gv.pc = "executed"
    /\ gv.type = "3"
    /\ gv.value = <<2, 5, 7>>
    /\ gv.executed[31] = 1 /\ gv.executed[32] = 1
    /\ gv.simulated = gv.executed

-----------------------------------------------------------------------------
(* Properties of the add-validator form (checked under SpecForm) *)

\* C27: after a lookup has failed with an HTTP error response, the NFD
\* field's error is 'NFD app ID not found' when the status was 404 and
\* 'Failed to fetch NFD' for every other status, and nfdAppId is what it was
\* before the response.
C27_LookupErrorMessages ==
    nfd.event = "http" =>
        /\ nfd.status = 404 => nfd.error = "NFD app ID not found"
        /\ nfd.status # 404 => nfd.error = "Failed to fetch NFD"
        /\ nfd.nfdAppId = nfd.appIdBefore
        /\ ~nfd.isFetchingAppId

C27_Witness ==
    /\ nfd.event = "http"
    /\ nfd.status = 404
    /\ nfd.error = "NFD app ID not found"
    /\ nfd.nfdAppId = 0
    /\ nfd.field = 1

-----------------------------------------------------------------------------
(* Properties of one invocation's fee and phases (checked under Spec) *)

\* The flat surcharge an operation adds to the converted budget.
SurchargeOf(o) ==
    CASE o = "addStake" -> 2000
      [] o = "epochBalanceUpdate" -> 3000
      [] OTHER -> 0

Phase1Returned == \E i \in CallIdx : IsPhase1(i) /\ calls[i].status = "ok"

\* C30: once the phase-1 simulate of a two-phase operation has returned, a
\* fee has been computed from the reported budget (a number, a positive
\* denominator; for budget 0 the operation's surcharge alone: 0 for
\* addValidator, removeStake and claimTokens), the phase-2 execute has been
\* sent, and an invocation that failed after that failed with the error of
\* its execute.
C30_FeeFromAnyBudget ==
    (op \in TwoPhaseOps /\ Phase1Returned) =>
        /\ budget \in Budgets
        /\ feesAmount.d > 0
        /\ budget = 0 => RatEq(feesAmount, Rat(SurchargeOf(op), 1))
        /\ pc \in {"exec", "done", "failed"}
        /\ IsExecute(Len(calls))
        /\ calls[Len(calls)].group[Len(calls[Len(calls)].group)].fee
               = MicroAlgos(feesAmount)
        /\ pc = "failed" => (error = "execute" /\ calls[Len(calls)].status = "failed")

C30_Witness ==
    /\ op = "removeStake"
    /\ Phase1Returned
    /\ budget = 0
    /\ feesAmount = Rat(0, 1)
    /\ pc = "failed"
    /\ error = "execute"

\* The pools whose claimTokens call is committed on the ledger.
ClaimedPools ==
    {chain[k].app : k \in {j \in 1..Len(chain) : chain[j].method = "claimTokens"}}

ExecuteFailed == \E i \in CallIdx : IsExecute(i) /\ calls[i].status = "failed"

\* C24: after the execute of an invocation has failed the invocation is
\* failed with the execute's error and no transaction of its group is on
\* the ledger; a claimTokens invocation that has ended has committed the
\* claim of every pool of its list (on success) or of none.
C24_FailedExecuteCommitsNothing ==
    /\ ExecuteFailed => (pc = "failed" /\ error = "execute" /\ chain = <<>>)
    /\ (op = "claimTokens" /\ pc \in {"done", "failed"}) =>
           /\ ClaimedPools \in {{}, {pools[k] : k \in 1..Len(pools)}}
           /\ chain # <<>> <=> pc = "done"

C24_Witness ==
    /\ op = "claimTokens"
    /\ pools = <<1, 2>>
    /\ ExecuteFailed
    /\ pc = "failed"
    /\ chain = <<>>

-----------------------------------------------------------------------------
(* Properties of invocations side by side (checked under SpecInvocations) *)

\* The positions at which an invocation sent its getMbrAmounts read, its
\* phase-1 simulate and its execute.
MbrReadIdx(s) ==
    {k \in 1..Len(s.calls) : /\ s.calls[k].kind = "simulate"
                             /\ s.calls[k].group[1].method = "getMbrAmounts"}
Phase1Idx(s) ==
    {k \in 1..Len(s.calls) : /\ s.calls[k].kind = "simulate"
                             /\ s.calls[k].group[Len(s.calls[k].group)].method = s.op}
ExecuteIdx(s) == {k \in 1..Len(s.calls) : s.calls[k].kind = "execute"}

\* The amounts of the payments in a group, and the fee of its logical call.
PayAmounts(group) == {group[k].amount : k \in {j \in 1..Len(group) : group[j].type = "pay"}}
LogicalFee(group) == group[Len(group)].fee

\* What an invocation sends when it runs with no other invocation beside or
\* before it and the gateway answers its read with mbr and its simulate
\* with b.
AloneSimulate(s) == SimGroup(s.op, s.args, s.amount, s.pools, s.mbrRead)
AloneExecute(s) ==
    ExecGroup(s.op, s.args, s.amount, FALSE, s.pools, s.mbrRead,
              ComputeFee(s.op, s.reported))

\* C23: whatever the other invocation is doing, each invocation sends the
\* groups (payment and fee included) it sends when run alone with the same
\* answers of the gateway, and ends as it does alone: done after its
\* execute was accepted, failed with the error of its own refused call.
C23_InvocationsIndependent ==
    \A i \in Slots :
        LET s == cc.slot[i]
        IN  /\ \A k \in Phase1Idx(s) : s.calls[k].group = AloneSimulate(s)
            /\ \A k \in ExecuteIdx(s) : s.calls[k].group = AloneExecute(s)
            /\ s.pc = "done" =>
                   /\ Len(s.calls) \in ExecuteIdx(s)
                   /\ \A k \in 1..Len(s.calls) : s.calls[k].status = "ok"
            /\ s.pc = "failed" =>
                   /\ s.calls[Len(s.calls)].status = "failed"
                   /\ s.error = (IF Len(s.calls) \in ExecuteIdx(s) THEN "execute"
                                 ELSE IF Len(s.calls) \in Phase1Idx(s) THEN "simulate"
                                 ELSE PrepSteps(s.op)[Len(s.calls)])

C23_Witness ==
    /\ cc.slot[1].op = "addValidator"
    /\ cc.slot[1].pc = "exec"
    /\ cc.slot[1].mbrRead = 1
    /\ cc.slot[1].reported = 701
    /\ cc.slot[2].op = "addValidator"
    /\ cc.slot[2].pc = "sim"
    /\ cc.slot[2].mbrRead = 2
    /\ PayAmounts(cc.slot[1].calls[5].group) = {1}
    /\ PayAmounts(cc.slot[2].calls[4].group) = {2}

\* C28: the fee of the logical call of every executed group is the fee
\* computed from the budget that the phase-1 simulate of the same
\* invocation reported, sent before it and returned without error,
\* whatever fee an invocation that returned earlier had computed.
C28_FeeFromOwnSimulate ==
    \A i \in Slots :
        LET s == cc.slot[i]
        IN  \A k \in ExecuteIdx(s) :
                /\ s.reported \in ReportedBudgets
                /\ k - 1 \in Phase1Idx(s)
                /\ s.calls[k - 1].status = "ok"
                /\ LogicalFee(s.calls[k].group) = MicroAlgos(ComputeFee(s.op, s.reported))

C28_Witness ==
    /\ cc.earlier.fee = << addStakeFee(701) >>
    /\ cc.slot[1].op = "removeStake"
    /\ cc.slot[1].pc = "exec"
    /\ cc.slot[1].reported = 1
    /\ LogicalFee(cc.slot[1].calls[2].group) = MicroAlgos(Rat(1000, 1))
    /\ cc.slot[2].pc = "idle"

\* C29: an addValidator invocation sends its getMbrAmounts read before its
\* simulate and its simulate before its execute, and the payment of both
\* groups is of the validator MBR that this read returned, whatever an
\* invocation that returned earlier had read.
C29_MbrReadThenSimulateThenExecute ==
    \A i \in Slots :
        LET s == cc.slot[i]
        IN  s.op = "addValidator" =>
                /\ \A k \in Phase1Idx(s) :
                       /\ \E j \in MbrReadIdx(s) : j < k /\ s.calls[j].status = "ok"
                       /\ s.mbrRead \in MbrAmounts
                       /\ PayAmounts(s.calls[k].group) = {s.mbrRead}
                /\ \A k \in ExecuteIdx(s) :
                       /\ \E j \in Phase1Idx(s) : j < k
                       /\ PayAmounts(s.calls[k].group) = {s.mbrRead}
                /\ Cardinality(MbrReadIdx(s)) <= 1

C29_Witness ==
    /\ cc.earlier.mbr = 2
    /\ cc.slot[1].op = "addValidator"
    /\ cc.slot[1].pc = "done"
    /\ cc.slot[1].mbrRead = 1
    /\ MbrReadIdx(cc.slot[1]) = {2}
    /\ Phase1Idx(cc.slot[1]) = {4}
    /\ ExecuteIdx(cc.slot[1]) = {5}
    /\ PayAmounts(cc.slot[1].calls[4].group) = {1}
    /\ PayAmounts(cc.slot[1].calls[5].group) = {1}

-----------------------------------------------------------------------------
(* Properties of the form's handle and submission (checked under SpecForm) *)

Handles == {NfdAppIdOf(name) : name \in Names}

\* C31: nfdAppId changes to a handle only in the step of an owned lookup;
\* after a lookup that returned another owner the field error is set and
\* nfdAppId is 0; after an edit nfdAppId is 0 and the check is scheduled
\* for the value entered.
C31_HandleOnlyFromOwnedLookup ==
    /\ nfd.nfdAppId \in Handles \cup {0}
    /\ (nfd.nfdAppId # 0 /\ nfd.nfdAppId # nfd.appIdBefore) => nfd.event = "owned"
    /\ nfd.event = "not owned" =>
           /\ nfd.error = "NFD not owned by active address"
           /\ nfd.nfdAppId = 0
    /\ nfd.event = "edit" => (nfd.nfdAppId = 0 /\ nfd.debounce = nfd.field)

\* C32: while the form is mounted with the submit button enabled and
\* nfdAppId non-zero, nfdAppId is the handle of the name in the NFD field.
C32_SubmittableHandleIsCurrent ==
    (nfd.mounted /\ ~SubmitDisabled(nfd) /\ nfd.nfdAppId # 0) =>
        nfd.nfdAppId = NfdAppIdOf(nfd.field)

\* C33: once onSubmit has been called isSigning is true and the submit
\* button disabled for as long as the form is mounted, during and after the
\* submission, and addValidator has been called at most once.
C33_SigningNeverReset ==
    /\ nfd.submits > 0 => (nfd.isSigning /\ SubmitDisabled(nfd))
    /\ nfd.submits <= 1
    /\ nfd.started <= 1

C33_Witness ==
    /\ nfd.mounted
    /\ nfd.submit = "failed"
    /\ nfd.started = 1
    /\ nfd.isSigning
    /\ ~nfd.isFetchingAppId

-----------------------------------------------------------------------------
(* Progress of the form's lookup (checked under SpecFormLive) *)

\* C34: while the form is mounted, isFetchingAppId set by an edit is
\* followed by a state in which it is false: the debounced check clears it
\* when validation fails, and the lookup clears it when it is answered,
\* with an owned name, another owner's name or an error.
C34_FetchingEventuallyCleared ==
    (nfd.mounted /\ nfd.isFetchingAppId) ~> (~nfd.isFetchingAppId \/ ~nfd.mounted)

C34_Witness ==
    /\ nfd.mounted
    /\ nfd.event = "network"
    /\ nfd.error = "Network Error"
    /\ ~nfd.isFetchingAppId
    /\ nfd.debounce = 0
    /\ nfd.lookups = {}

-----------------------------------------------------------------------------
(* Properties of the values returned by the operations (checked under Spec) *)

\* C36: the pool key returned by addStakingPool and addStake is the return
\* value of the logical call of the executed group, which stands in returns
\* after the entries of the gas calls before it (two for addStakingPool, one
\* for addStake); it is never the (empty) return value of a gas call.
C36_PoolKeyFromLogicalCall ==
    (op \in {"addStakingPool", "addStake"} /\ pc = "done") =>
        LET mc == MethodCalls(calls[Len(calls)].group)
            j == CHOOSE i \in 1..Len(mc) : mc[i].method = LogicalMethod(op)
            gasBefore == Cardinality({i \in 1..(j - 1) : mc[i].method = "gas"})
        IN  /\ gasBefore = j - 1
            /\ gasBefore = (IF op = "addStakingPool" THEN 2 ELSE 1)
            /\ Len(result.returns) = Len(mc)
            /\ result.value = [validatorId |-> result.returns[j][1],
                               poolId |-> result.returns[j][2],
                               poolAppId |-> result.returns[j][3]]
            /\ result.value.poolId \in PoolIds
            /\ result.value.validatorId = args

C36_Witness ==
    /\ op = "addStake"
    /\ pc = "done"
    /\ Len(result.returns) = 2
    /\ result.returns[1] = VoidReturn
    /\ result.value = [validatorId |-> 1, poolId |-> 2, poolAppId |-> 102]

-----------------------------------------------------------------------------
(* Properties of claimTokens' groups (checked under Spec) *)

\* The group is one (gas, gas, claimTokens) triple per pool of ps, in the
\* order of ps, each triple addressed to its pool.
TriplesPerPool(group, ps) ==
    /\ Len(group) = 3 * Len(ps)
    /\ \A k \in 1..Len(ps) :
          /\ group[3 * k - 2].method = "gas" /\ group[3 * k - 2].app = ps[k]
          /\ group[3 * k - 1].method = "gas" /\ group[3 * k - 1].app = ps[k]
          /\ group[3 * k].method = "claimTokens" /\ group[3 * k].app = ps[k]

\* The sum of the (whole) fees set on the transactions of a group.
RECURSIVE TotalFee(_)
TotalFee(group) ==
    IF group = <<>> THEN 0 ELSE Head(group).fee.n + TotalFee(Tail(group))

\* C35: the simulated and the executed group of claimTokens are one
\* (gas, gas, claimTokens) triple per pool in the order of the list, each
\* addressed to its pool; in the executed group every gas call has fee 0 and
\* every claimTokens call the fee ceil(b / 700) * 1000 of the budget b the
\* simulate reported, so that the group's fees add up to n times that fee.
C35_ClaimTokensTriples ==
    op = "claimTokens" =>
        \A i \in CallIdx :
            /\ Len(pools) >= 1
            /\ TriplesPerPool(calls[i].group, pools)
            /\ IsExecute(i) =>
                   /\ \A k \in 1..Len(calls[i].group) :
                          /\ calls[i].group[k].fee.set /\ calls[i].group[k].fee.d = 1
                          /\ calls[i].group[k].fee.n =
                                 (IF calls[i].group[k].method = "gas" THEN 0
                                  ELSE 1000 * CeilDiv(budget, 700))
                   /\ TotalFee(calls[i].group) = Len(pools) * 1000 * CeilDiv(budget, 700)

C35_Witness ==
    /\ op = "claimTokens"
    /\ pools = <<2, 1>>
    /\ pc = "exec"
    /\ budget = 701
    /\ TriplesPerPool(calls[1].group, <<2, 1>>)
    /\ TriplesPerPool(calls[2].group, <<2, 1>>)
    /\ TotalFee(calls[2].group) = 4000

-----------------------------------------------------------------------------
(* Properties of fetchStakerValidatorData's output (checked under SpecBatch) *)

\* The places (aggregate, position in its pools list) at which the output
\* holds the pool record rec.
PlacesOf(rec) ==
    {pl \in {<<a, j>> : a \in 1..Len(bt.result), j \in 1..MaxInputs} :
        /\ pl[2] <= Len(bt.result[pl[1]].pools)
        /\ bt.result[pl[1]].pools[pl[2]] = rec}

RECURSIVE CountPools(_)
CountPools(aggregates) ==
    IF aggregates = <<>> THEN 0
    ELSE Len(Head(aggregates).pools) + CountPools(Tail(aggregates))

\* C37: when fetchStakerValidatorData has returned, the record fetched for
\* each pool key is at exactly one place of the output, in the aggregate of
\* the record's validator; the aggregates hold as many records as there
\* were pool keys; and for an empty list of pool keys the output is empty
\* and no batch of fetches was started.
C37_PoolsPartitioned ==
    (bt.fn = "fetchStakerValidatorData" /\ bt.pc = "returned") =>
        /\ \A k \in 1..bt.n :
               LET rec == FetchResult(bt.fn, bt.inputs[k])
               IN  /\ Cardinality(PlacesOf(rec)) = 1
                   /\ \A pl \in PlacesOf(rec) :
                          bt.result[pl[1]].validatorId = rec.poolKey.validatorId
        /\ CountPools(bt.result) = bt.n
        /\ bt.n = 0 => (bt.result = <<>> /\ bt.batches = <<>> /\ bt.started = <<>>)

C37_Witness ==
    /\ bt.fn = "fetchStakerValidatorData"
    /\ bt.pc = "returned"
    /\ bt.n = 5
    /\ Len(bt.result) = 3
    /\ Len(bt.result[1].pools) = 2
    /\ bt.result[1].pools[2].poolKey.poolAppId = 104

-----------------------------------------------------------------------------
(* Properties of fetchMaxAvailableToStake (checked under SpecMaxStake) *)

\* What is left to stake in each pool of the validator.
Available == {ms.maxAlgoPerPool - ms.poolsInfo[k].totalAlgoStaked : k \in 1..Len(ms.poolsInfo)}

\* C38: the value returned is the largest of maxAlgoPerPool - totalAlgoStaked
\* over the pools when that is positive and 0 otherwise (never negative; 0
\* without pools and with every pool at or above maxAlgoPerPool), and the
\* pools read is sent only after the config read has returned.
C38_MaxAvailableToStake ==
    /\ ms.pc = "returned" =>
           /\ ms.result >= 0
           /\ ms.result \in Available \cup {0}
           /\ \A a \in Available : a <= ms.result
           /\ (\A a \in Available : a <= 0) => ms.result = 0
    /\ \A j \in 1..Len(ms.reads) :
           ms.reads[j].read = "getPools" =>
               /\ j = 2
               /\ ms.reads[1].read = "getValidatorConfig"
               /\ ms.reads[1].status = "ok"

C38_Witness ==
    /\ ms.pc = "returned"
    /\ ms.maxAlgoPerPool = 2
    /\ Len(ms.poolsInfo) = 3
    /\ ms.poolsInfo[1].totalAlgoStaked = 0
    /\ ms.poolsInfo[2].totalAlgoStaked = 1
    /\ ms.poolsInfo[3].totalAlgoStaked = 3
    /\ ms.result = 2

-----------------------------------------------------------------------------
(* The fee as a function of the budget (checked under SpecInvocations) *)

\* The invocation of slot i has sent its execute.
Executing(i) == ExecuteIdx(cc.slot[i]) # {}

\* The fee on the logical call of the group slot i executed.
AttachedFee(i) ==
    LET s == cc.slot[i]
        fee == LogicalFee(s.calls[CHOOSE k \in ExecuteIdx(s) : TRUE].group)
    IN  Rat(fee.n, fee.d)

\* C39: of two invocations of the same two-phase operation, the one whose
\* simulate reported the smaller (or the same) budget attaches the smaller
\* (or the same) fee.
C39_FeeMonotone ==
    \A i \in Slots, j \in Slots :
        (/\ Executing(i) /\ Executing(j)
         /\ cc.slot[i].op = cc.slot[j].op
         /\ cc.slot[i].reported <= cc.slot[j].reported) =>
            RatGeq(AttachedFee(j), AttachedFee(i))

C39_Witness ==
    /\ Executing(1) /\ Executing(2)
    /\ cc.slot[1].op = "epochBalanceUpdate"
    /\ cc.slot[2].op = "epochBalanceUpdate"
    /\ cc.slot[1].reported = 700
    /\ cc.slot[2].reported = 701
    /\ RatGeq(AttachedFee(2), AttachedFee(1))
    /\ ~RatGeq(AttachedFee(1), AttachedFee(2))

====
